---- MODULE Spec2Model ----
(***************************************************************************)
(* Model of the per-session reverse proxy and backend supervisor of        *)
(* proxy_app.py: the registry `backends`, the provisioning path            *)
(* (ensure_backend / start_backend / wait_for_port), teardown              *)
(* (stop_backend_by_key), the idle reaper and the route handlers.          *)
(*                                                                         *)
(* The program runs on one cooperative asyncio event loop.  A handler runs *)
(* without interruption from one `await` to the next; each such segment is *)
(* one action.  start_backend is synchronous code called from inside an    *)
(* async handler: it occupies the event-loop thread while it copies the    *)
(* tree, syncs dependencies and spawns the child.  Its blocking steps are  *)
(* separate actions during which `loop` names the handler that occupies    *)
(* the thread, and every other handler is guarded by loop = NoTask.        *)
(*                                                                         *)
(* Strings (hosts, tokens, registry keys) are sequences of chunks; a chunk *)
(* stands for a run of characters ("https://", "/", "::", a name).         *)
(***************************************************************************)
EXTENDS Integers, Sequences, FiniteSets, TLC

VARIABLES
    backends,        \* dict key -> BackendInfo (port, proc, workdir, last_seen)
    lock,            \* holder of the module-level asyncio.Lock
    loop,            \* handler occupying the event-loop thread in blocking code
    procs,           \* child processes spawned so far: pid -> [state, port]
    dirs,            \* per-session working directories that exist on disk
    nextId,          \* next fresh name for mkdtemp / next pid
    now,             \* time.monotonic() and the event loop's clock, in seconds
    advances,        \* number of clock advances taken so far
    call,            \* POST /start handlers in flight: caller -> frame
    conn,            \* the proxied connection in flight: an HTTP request awaiting
                     \* its upstream response, or a WebSocket bridge
    WS_CONNECTIONS,  \* current websocket client connections
    last,            \* the response most recently sent by a handler
    wire,            \* the headers of one proxied HTTP exchange, on both sides
    bridges          \* the WebSocket bridges in detail: bridge -> its state

vars == <<backends, lock, loop, procs, dirs, nextId, now, advances, call, conn,
          WS_CONNECTIONS, last, wire, bridges>>

---------------------------------------------------------------------------
(* Bounds of the model *)

MaxProv == 2
MaxAdvances == 1

(* Program constants *)

INACTIVITY_SECS == 3600
timeout_s == 30

\* Two POST /start handlers can be in flight.
Callers == { 1, 2 }

\* The local ports the operating system hands out: as many as there can be
\* children.
Ports == 1..MaxProv
\* The handler of caller c as a task of the event loop; NoTask is no handler.
Task(c) == <<"start", c>>
NoTask == << >>
EmptyDict == [k \in {} |-> 0]
Empty == << >>

\* Form values of POST /start: a missing host, a bare host name, the same host
\* written out in full, a second host.  OneHost leaves the second host out.
RawHosts == { Empty, <<" ">>, <<"a">>, <<"https://", "a", "/">>, <<"b", " ">> }
OneHost == { Empty, <<"a">>, <<"https://", "a", "/">> }
Tokens == { <<"t">> }


---------------------------------------------------------------------------
(* Helpers *)

session_key(host, token) == host \o <<"::">> \o token

RECURSIVE lstrip(_)
lstrip(h) == IF h # Empty /\ Head(h) = " " THEN lstrip(Tail(h)) ELSE h

RECURSIVE rstrip(_)
rstrip(h) == IF h # Empty /\ h[Len(h)] = " " THEN rstrip(SubSeq(h, 1, Len(h) - 1)) ELSE h

strip(h) == rstrip(lstrip(h))

\* normalize_host raises ValueError on an empty host; NormalizeFails is that case.
NormalizeFails(h) == strip(h) = Empty

normalize_host(h) ==
    LET s == strip(h)
        p == IF Head(s) \in {"http://", "https://"} THEN s ELSE <<"https://">> \o s
    IN  IF p[Len(p)] # "/" THEN p \o <<"/">> ELSE p

\* info.proc.poll() is None
poll_is_None(pr, p) == pr[p].state \in {"starting", "listening"}

\* has_live_session without the poll() test.
has_live_session_no_poll(host, token) ==
    session_key(host, token) \in DOMAIN backends

has_live_session(host, token) ==
    LET key == session_key(host, token)
    IN  key \in DOMAIN backends /\ poll_is_None(procs, backends[key].proc)

\* The registry after touch_session(host, token) at time t.
touch_session(b, host, token, t) ==
    LET key == session_key(host, token)
    IN  IF key \in DOMAIN b THEN [b EXCEPT ![key].last_seen = t] ELSE b

\* Whether a connection to 127.0.0.1:port is accepted: some child listens on it.
PortAccepts(pr, port) ==
    \E p \in DOMAIN pr : pr[p].state = "listening" /\ pr[p].port = port

\* Ports get_free_port can return: those no process is bound to right now.
get_free_port(pr) == { port \in Ports : ~PortAccepts(pr, port) }

\* What the registry and the process table hold for the cookies of a request,
\* read off the state itself: no entry, an entry whose child is gone, an entry
\* whose child runs.
SessionState(host, token) ==
    LET key == session_key(host, token)
    IN  IF host = Empty \/ token = Empty \/ key \notin DOMAIN backends THEN "absent"
        ELSE IF procs[backends[key].proc].state \in {"exited", "terminated"} THEN "dead"
        ELSE "live"

\* A response: the handler that sent it, its status (or WebSocket close code),
\* the state of the caller's session when the handler looked it up, the
\* request's Accept (a browser navigation or not) and path, and for POST /start
\* the pid of the handle that ensure_backend returned or was about to create,
\* and the step that failed.
NoResponse ==
    [op |-> "none", status |-> 0, session |-> "absent", nav |-> FALSE,
     path_empty |-> FALSE, proc |-> 0, why |-> "none", cookies |-> "none"]

Response(op, status) == [NoResponse EXCEPT !.op = op, !.status = status]

IdleFrame == [pc |-> "idle", host |-> Empty, token |-> Empty, id |-> 0,
              port |-> 0, deadline |-> 0]

NoConn == [pc |-> "none", route |-> "none", host |-> Empty, token |-> Empty,
           port |-> 0, session |-> "absent", sends |-> 0]

\* No exchange observed: nothing received, nothing passed on.
NoWire == [request |-> Empty, forwarded |-> Empty, upstream |-> Empty,
           response |-> Empty, inbound |-> Empty, outbound |-> Empty]

\* Two WebSocket connections can be bridged at a time.
Bridges == { 1, 2 }

MaxFrames == 2

None == "None"

\* The frames either side can send: one text frame and one binary frame.
Frames == { [type |-> "text", data |-> "m"], [type |-> "bytes", data |-> "m"] }
TextFrames == { f \in Frames : f.type = "text" }

\* A bridge that is not in use.  client / upstream: the two connections;
\* c2u / u2c: where client_to_upstream and upstream_to_client stand; msg /
\* data: what each loop has received and not yet sent on; inbox / outbox: the
\* frames that arrived at the proxy and that no loop has received yet;
\* client_sent .. client_received: what each end has sent and received so far.
NoBridge ==
    [pc |-> "none", host |-> Empty, token |-> Empty, port |-> 0, code |-> 0,
     client |-> "connecting", upstream |-> "none", c2u |-> "none", u2c |-> "none",
     msg |-> Empty, data |-> Empty, inbox |-> Empty, outbox |-> Empty,
     client_sent |-> Empty, backend_received |-> Empty,
     backend_sent |-> Empty, client_received |-> Empty]

---------------------------------------------------------------------------
Init ==
    /\ backends = EmptyDict
    /\ lock = NoTask
    /\ loop = NoTask
    /\ procs = EmptyDict
    /\ dirs = {}
    /\ nextId = 1
    /\ now = 0
    /\ advances = 0
    /\ call = [c \in Callers |-> IdleFrame]
    /\ conn = NoConn
    /\ WS_CONNECTIONS = 0
    /\ last = NoResponse
    /\ wire = NoWire
    /\ bridges = [w \in Bridges |-> NoBridge]

---------------------------------------------------------------------------
(* Teardown: stop_backend_by_key *)

\* What terminating a child can come to: it exits within the grace period of
\* proc.wait(timeout=5); the wait times out (or terminate raises) and
\* proc.kill() ends it; proc.kill() raises too and the child keeps running.
Outcomes == { "terminated", "killed", "kill_failed" }

\* stop_backend_by_key reading the entry with backends.get instead of pop.
stop_pop_keeps(b, key) == b

\* backends.pop(key, None)
stop_pop(b, key) == [k \in DOMAIN b \ {key} |-> b[k]]

\* The processes after the terminate / wait / kill of stop_backend_by_key.
stop_proc(pr, info, outcome) ==
    IF poll_is_None(pr, info.proc) /\ outcome # "kill_failed"
    THEN [pr EXCEPT ![info.proc].state = "terminated"]
    ELSE pr

\* stop_backend_by_key without its rmtree.
stop_rmtree_skipped(d, info, removed) == d

\* The directories after shutil.rmtree(info.workdir, ignore_errors=True).
stop_rmtree(d, info, removed) == IF removed THEN d \ {info.workdir} ELSE d

\* The program's mutable resources, as the value stop_backend_by_key works on.
Resources == [backends |-> backends, procs |-> procs, dirs |-> dirs]

\* stop_backend_by_key taking the entry out only after a cleanup in which
\* nothing failed.
stop_backend_by_key_cleanup_first(st, key, outcome, removed) ==
    IF key \notin DOMAIN st.backends
    THEN st
    ELSE LET info == st.backends[key]
         IN  [backends |-> IF outcome = "kill_failed" \/ ~removed
                           THEN st.backends
                           ELSE stop_pop(st.backends, key),
              procs    |-> stop_proc(st.procs, info, outcome),
              dirs     |-> stop_rmtree(st.dirs, info, removed)]

\* stop_backend_by_key taking the entry out only if its child was running.
stop_backend_by_key_pop_if_alive(st, key, outcome, removed) ==
    IF key \notin DOMAIN st.backends
    THEN st
    ELSE LET info == st.backends[key]
         IN  [backends |-> IF poll_is_None(st.procs, info.proc)
                           THEN stop_pop(st.backends, key)
                           ELSE st.backends,
              procs    |-> stop_proc(st.procs, info, outcome),
              dirs     |-> stop_rmtree(st.dirs, info, removed)]

\* stop_backend_by_key(key), the child's termination coming to `outcome` and
\* the directory removal to `removed`.
stop_backend_by_key(st, key, outcome, removed) ==
    IF key \notin DOMAIN st.backends
    THEN st
    ELSE LET info == st.backends[key]
         IN  [backends |-> stop_pop(st.backends, key),
              procs    |-> stop_proc(st.procs, info, outcome),
              dirs     |-> stop_rmtree(st.dirs, info, removed)]

\* The idle test with `>=` in place of `>`.
reaper_expired_at_threshold(pr, info, t) ==
    poll_is_None(pr, info.proc) /\ (t - info.last_seen) >= INACTIVITY_SECS

\* The idle test of one reaper iteration, on the snapshot's (key, info) pair.
reaper_expired(pr, info, t) ==
    poll_is_None(pr, info.proc) /\ (t - info.last_seen) > INACTIVITY_SECS

\* The reaper's loop with a teardown whose failure raises: the exception leaves
\* the loop, and the entries after it are left for a later tick.
RECURSIVE reaper_loop_failure_raises(_, _, _, _, _, _)
reaper_loop_failure_raises(st, snapshot, keys, t, out, rm) ==
    IF keys = {}
    THEN st
    ELSE LET key == CHOOSE k \in keys : TRUE
             expired == reaper_expired(st.procs, snapshot[key], t)
             nxt == IF expired
                    THEN stop_backend_by_key(st, key, out[key], rm[key])
                    ELSE st
         IN  IF expired /\ (out[key] = "kill_failed" \/ ~rm[key])
             THEN nxt
             ELSE reaper_loop_failure_raises(nxt, snapshot, keys \ {key}, t, out, rm)

\* The body of one reaper tick: the loop over list(backends.items()).
RECURSIVE reaper_loop(_, _, _, _, _, _)
reaper_loop(st, snapshot, keys, t, out, rm) ==
    IF keys = {}
    THEN st
    ELSE LET key == CHOOSE k \in keys : TRUE
             nxt == IF reaper_expired(st.procs, snapshot[key], t)
                    THEN stop_backend_by_key(st, key, out[key], rm[key])
                    ELSE st
         IN  reaper_loop(nxt, snapshot, keys \ {key}, t, out, rm)

SetResources(st) ==
    /\ backends' = st.backends
    /\ procs' = st.procs
    /\ dirs' = st.dirs

---------------------------------------------------------------------------
(* POST /start: start -> ensure_backend -> start_backend -> wait_for_port *)

\* ensure_backend with the liveness test inverted (`is not None`).
ensure_reuses_inverted(b, pr, key) == key \in DOMAIN b /\ ~poll_is_None(pr, b[key].proc)

\* ensure_backend's test for returning the entry it finds under the lock.
ensure_reuses(b, pr, key) == key \in DOMAIN b /\ poll_is_None(pr, b[key].proc)

\* normalize_host raised: 400.
start_bad_host(c, h, token) ==
    /\ loop = NoTask
    /\ call[c].pc = "idle"
    /\ NormalizeFails(h)
    /\ last' = Response("start", 400)
    /\ UNCHANGED <<backends, lock, loop, procs, dirs, nextId, now, advances,
                   call, conn, WS_CONNECTIONS>>
    /\ UNCHANGED <<wire, bridges>>

\* ensure_backend finds a live entry and returns it without suspending; start
\* touches the session and answers with the redirect that sets the cookies.
start_reuse(c, h, token) ==
    /\ loop = NoTask
    /\ lock = NoTask
    /\ call[c].pc = "idle"
    /\ ~NormalizeFails(h)
    /\ LET host == normalize_host(h)
           key == session_key(host, token)
       IN  /\ ensure_reuses(backends, procs, key)
           /\ backends' = touch_session(backends, host, token, now)
           /\ last' = [Response("start", 303) EXCEPT !.session = SessionState(host, token),
                                                     !.cookies = "set",
                                                     !.proc = backends[key].proc]
    /\ UNCHANGED <<lock, loop, procs, dirs, nextId, now, advances, call, conn,
                    WS_CONNECTIONS>>
    /\ UNCHANGED <<wire, bridges>>

\* ensure_backend takes the lock, finds no live entry and calls start_backend,
\* which is given `port` by get_free_port and begins the blocking copy of the
\* working tree.
start_provision(c, h, token, port) ==
    /\ loop = NoTask
    /\ lock = NoTask
    /\ call[c].pc = "idle"
    /\ ~NormalizeFails(h)
    /\ nextId <= MaxProv
    /\ LET host == normalize_host(h)
           key == session_key(host, token)
       IN  /\ ~ensure_reuses(backends, procs, key)
           /\ port \in get_free_port(procs)
           /\ call' = [call EXCEPT ![c] =
                        [pc |-> "copy", host |-> host, token |-> token,
                         id |-> nextId, port |-> port, deadline |-> 0]]
    /\ nextId' = nextId + 1
    /\ lock' = Task(c)
    /\ loop' = Task(c)
    /\ UNCHANGED <<backends, procs, dirs, now, advances, conn,
                   WS_CONNECTIONS, last>>
    /\ UNCHANGED <<wire, bridges>>

\* _session_copy_and_sync: the copy and the dependency sync succeed and leave
\* the working directory, or fail, remove it and raise; start answers 502.
session_copy_and_sync(c, ok) ==
    /\ loop = Task(c)
    /\ call[c].pc = "copy"
    /\ IF ok
       THEN /\ dirs' = dirs \cup {call[c].id}
            /\ call' = [call EXCEPT ![c].pc = "spawn"]
            /\ UNCHANGED <<lock, loop, last>>
       ELSE /\ lock' = NoTask
            /\ loop' = NoTask
            /\ call' = [call EXCEPT ![c] = IdleFrame]
            /\ last' = [Response("start", 502) EXCEPT !.proc = call[c].id,
                                                      !.why = "copy"]
            /\ UNCHANGED dirs
    /\ UNCHANGED <<backends, procs, nextId, now, advances, conn, WS_CONNECTIONS>>
    /\ UNCHANGED <<wire, bridges>>

\* The BackendInfo start_backend returns for the frame f at time t.
BackendInfo(f, t) ==
    [port |-> f.port, proc |-> f.id, workdir |-> f.id, last_seen |-> t]

\* The registry after ensure_backend's backends[key] = info.
ensure_registers(b, key, info) ==
    [k \in DOMAIN b \cup {key} |-> IF k = key THEN info ELSE b[k]]

\* The rest of start_backend and of ensure_backend's locked block: locate the
\* binary and Popen the child.  On success the entry is registered, the lock
\* released and wait_for_port entered (deadline set, first attempt awaited).
\* On failure (no binary, Popen raises) the exception leaves the lock and
\* start answers 502.
spawn(c, ok) ==
    /\ loop = Task(c)
    /\ call[c].pc = "spawn"
    /\ lock' = NoTask
    /\ loop' = NoTask
    /\ IF ok
       THEN /\ procs' = [p \in DOMAIN procs \cup {call[c].id} |->
                           IF p = call[c].id
                           THEN [state |-> "starting", port |-> call[c].port]
                           ELSE procs[p]]
            /\ backends' = ensure_registers(backends,
                              session_key(call[c].host, call[c].token),
                              BackendInfo(call[c], now))
            /\ call' = [call EXCEPT ![c].pc = "wait",
                                    ![c].deadline = now + timeout_s]
            /\ UNCHANGED last
       ELSE /\ call' = [call EXCEPT ![c] = IdleFrame]
            /\ last' = [Response("start", 502) EXCEPT !.proc = call[c].id,
                                                      !.why = "spawn"]
            /\ UNCHANGED <<procs, backends>>
    /\ UNCHANGED <<dirs, nextId, now, advances, conn, WS_CONNECTIONS>>
    /\ UNCHANGED <<wire, bridges>>

\* wait_for_port's connection attempt succeeds: it closes the connection and
\* awaits writer.wait_closed().
wait_connected(c) ==
    /\ loop = NoTask
    /\ call[c].pc = "wait"
    /\ PortAccepts(procs, call[c].port)
    /\ call' = [call EXCEPT ![c].pc = "closing"]
    /\ UNCHANGED <<backends, lock, loop, procs, dirs, nextId, now, advances,
                   conn, WS_CONNECTIONS, last>>
    /\ UNCHANGED <<wire, bridges>>

\* The connection is closed: wait_for_port and ensure_backend return, start
\* touches the session and answers with the redirect.
wait_ready(c) ==
    /\ loop = NoTask
    /\ call[c].pc = "closing"
    /\ backends' = touch_session(backends, call[c].host, call[c].token, now)
    /\ call' = [call EXCEPT ![c] = IdleFrame]
    /\ last' = [Response("start", 303) EXCEPT !.proc = call[c].id,
                                              !.cookies = "set"]
    /\ UNCHANGED <<lock, loop, procs, dirs, nextId, now, advances, conn,
                   WS_CONNECTIONS>>
    /\ UNCHANGED <<wire, bridges>>

\* wait_for_port's connection attempt fails after the deadline: TimeoutError
\* propagates through ensure_backend and start answers 502.
wait_timeout(c) ==
    /\ loop = NoTask
    /\ call[c].pc = "wait"
    /\ ~PortAccepts(procs, call[c].port)
    /\ now > call[c].deadline
    /\ call' = [call EXCEPT ![c] = IdleFrame]
    /\ last' = [Response("start", 502) EXCEPT !.proc = call[c].id,
                                              !.why = "timeout"]
    /\ UNCHANGED <<backends, procs, dirs, lock, loop, nextId, now, advances,
                   conn, WS_CONNECTIONS>>
    /\ UNCHANGED <<wire, bridges>>

---------------------------------------------------------------------------
(* The other control routes and the idle reaper *)

\* `not token or not host`: a cookie is missing or empty.
no_cookies(host, token) == token = Empty \/ host = Empty

\* GET /: the page shows the application only for a live session.
home(host, token) ==
    /\ loop = NoTask
    /\ LET show_iframe == ~no_cookies(host, token) /\ has_live_session(host, token)
       IN  /\ backends' = IF show_iframe
                          THEN touch_session(backends, host, token, now)
                          ELSE backends
           /\ last' = [Response(IF show_iframe THEN "home_app" ELSE "home_login", 200)
                         EXCEPT !.session = SessionState(host, token)]
    /\ UNCHANGED <<lock, loop, procs, dirs, nextId, now, advances, call, conn,
                    WS_CONNECTIONS>>
    /\ UNCHANGED <<wire, bridges>>

\* GET /logout: what the handler leaves for the cookies (host, token), as
\* resources and as response: stop_backend_by_key if both cookies are there,
\* then the redirect that deletes both cookies.
logout_result(host, token, outcome, removed) ==
    [resources |-> IF ~no_cookies(host, token)
                   THEN stop_backend_by_key(Resources, session_key(host, token),
                                            outcome, removed)
                   ELSE Resources,
     response  |-> [Response("logout", 303) EXCEPT !.session = SessionState(host, token),
                                                   !.cookies = "deleted"]]

\* GET /logout
logout(host, token, outcome, removed) ==
    /\ loop = NoTask
    /\ SetResources(logout_result(host, token, outcome, removed).resources)
    /\ last' = logout_result(host, token, outcome, removed).response
    /\ UNCHANGED <<lock, loop, nextId, now, advances, call, conn,
                   WS_CONNECTIONS>>
    /\ UNCHANGED <<wire, bridges>>

\* POST /heartbeat touching whatever entry the cookies name, live or not.
heartbeat_unguarded(host, token) ==
    /\ loop = NoTask
    /\ backends' = IF ~no_cookies(host, token)
                   THEN touch_session(backends, host, token, now)
                   ELSE backends
    /\ last' = [Response("heartbeat", 204)
                  EXCEPT !.session = SessionState(host, token)]
    /\ UNCHANGED <<lock, loop, procs, dirs, nextId, now, advances, call, conn,
                    WS_CONNECTIONS>>
    /\ UNCHANGED <<wire, bridges>>

\* POST /heartbeat
heartbeat(host, token) ==
    /\ loop = NoTask
    /\ LET live == ~no_cookies(host, token) /\ has_live_session(host, token)
       IN  /\ backends' = IF live
                          THEN touch_session(backends, host, token, now)
                          ELSE backends
           /\ last' = [Response("heartbeat", 204)
                         EXCEPT !.session = SessionState(host, token)]
    /\ UNCHANGED <<lock, loop, procs, dirs, nextId, now, advances, call, conn,
                    WS_CONNECTIONS>>
    /\ UNCHANGED <<wire, bridges>>

\* The shutdown handler stopping only the entries whose process is running.
RECURSIVE shutdown_loop_skips_dead(_, _, _, _)
shutdown_loop_skips_dead(st, keys, out, rm) ==
    IF keys = {}
    THEN st
    ELSE LET key == CHOOSE k \in keys : TRUE
             nxt == IF poll_is_None(st.procs, st.backends[key].proc)
                    THEN stop_backend_by_key(st, key, out[key], rm[key])
                    ELSE st
         IN  shutdown_loop_skips_dead(nxt, keys \ {key}, out, rm)

\* The loop of the shutdown handler over list(backends.keys()).
RECURSIVE shutdown_loop(_, _, _, _)
shutdown_loop(st, keys, out, rm) ==
    IF keys = {}
    THEN st
    ELSE LET key == CHOOSE k \in keys : TRUE
         IN  shutdown_loop(stop_backend_by_key(st, key, out[key], rm[key]),
                           keys \ {key}, out, rm)

\* What the shutdown handler run now leaves of the registry, the children and
\* the directories.
shutdown_result(out, rm) == shutdown_loop(Resources, DOMAIN backends, out, rm)

\* The event loop after the shutdown handler: no handler runs any more.
Stopped == <<"shutdown">>

\* The application's shutdown event.
shutdown(out, rm) ==
    /\ loop = NoTask
    /\ SetResources(shutdown_result(out, rm))
    /\ loop' = Stopped
    /\ UNCHANGED <<lock, nextId, now, advances, call, conn, WS_CONNECTIONS, last>>
    /\ UNCHANGED <<wire, bridges>>

\* What one reaper tick taken now leaves of the registry, the children and the
\* directories.
reaper_tick(out, rm) ==
    reaper_loop(Resources, backends, DOMAIN backends, now, out, rm)

\* One iteration of idle_reaper's `while True`, up to its sleep.
idle_reaper(out, rm) ==
    /\ loop = NoTask
    /\ SetResources(reaper_tick(out, rm))
    /\ UNCHANGED <<lock, loop, nextId, now, advances, call, conn,
                   WS_CONNECTIONS, last>>
    /\ UNCHANGED <<wire, bridges>>

---------------------------------------------------------------------------
(* HTTP reverse proxy *)

\* http_proxy calling ensure_backend when it finds no live session.
http_proxy_autostart(host, token, nav) ==
    /\ loop = NoTask
    /\ conn.pc = "none"
    /\ ~no_cookies(host, token)
    /\ ~has_live_session(host, token)
    /\ nextId <= MaxProv
    /\ procs' = [p \in DOMAIN procs \cup {nextId} |->
                   IF p = nextId THEN [state |-> "starting", port |-> 1] ELSE procs[p]]
    /\ backends' = ensure_registers(backends, session_key(host, token),
                       [port |-> 1, proc |-> nextId, workdir |-> nextId, last_seen |-> now])
    /\ dirs' = dirs \cup {nextId}
    /\ nextId' = nextId + 1
    /\ last' = [Response("goose", 200) EXCEPT !.nav = nav, !.session = "live"]
    /\ UNCHANGED <<lock, loop, now, advances, call, conn, WS_CONNECTIONS>>
    /\ UNCHANGED <<wire, bridges>>

\* http_proxy (/goose, /goose/, /goose/{path}) without a live session.
http_proxy_no_session(host, token, nav) ==
    /\ loop = NoTask
    /\ conn.pc = "none"
    /\ no_cookies(host, token) \/ ~has_live_session(host, token)
    /\ last' = [Response("goose", 303) EXCEPT !.nav = nav,
                                              !.session = SessionState(host, token)]
    /\ UNCHANGED <<backends, lock, loop, procs, dirs, nextId, now, advances,
                   call, conn, WS_CONNECTIONS>>
    /\ UNCHANGED <<wire, bridges>>

\* absolute_proxy (/{path}) without a live session.
absolute_proxy_no_session(host, token, nav, path_empty) ==
    /\ loop = NoTask
    /\ conn.pc = "none"
    /\ no_cookies(host, token) \/ ~has_live_session(host, token)
    /\ last' = [Response("abs", IF path_empty \/ nav THEN 303 ELSE 404)
                  EXCEPT !.nav = nav, !.path_empty = path_empty,
                         !.session = SessionState(host, token)]
    /\ UNCHANGED <<backends, lock, loop, procs, dirs, nextId, now, advances,
                   call, conn, WS_CONNECTIONS>>
    /\ UNCHANGED <<wire, bridges>>

\* The proxy handler with a suspension between has_live_session and the
\* lookup backends[session_key(host, token)]: the lookup runs in a later step,
\* and raises KeyError (500) when the entry is gone by then.
proxy_forward_lookup_later(route, host, token) ==
    /\ loop = NoTask
    /\ UNCHANGED <<lock, loop, procs, dirs, nextId, now, advances, call, WS_CONNECTIONS>>
    /\ UNCHANGED <<wire, bridges>>
    /\ \/ /\ conn.pc = "none"
          /\ ~no_cookies(host, token)
          /\ has_live_session(host, token)
          /\ conn' = [NoConn EXCEPT !.pc = "checked", !.route = route,
                                    !.host = host, !.token = token,
                                    !.session = SessionState(host, token)]
          /\ UNCHANGED <<backends, last>>
       \/ /\ conn.pc = "checked"
          /\ conn.route = route /\ conn.host = host /\ conn.token = token
          /\ IF session_key(host, token) \in DOMAIN backends
             THEN /\ conn' = [NoConn EXCEPT !.pc = "forwarding", !.route = route,
                                 !.port = backends[session_key(host, token)].port,
                                 !.session = conn.session,
                                 !.sends = 1]
                  /\ backends' = touch_session(backends, host, token, now)
                  /\ UNCHANGED last
             ELSE /\ conn' = NoConn
                  /\ last' = [Response(route, 500) EXCEPT !.session = conn.session]
                  /\ UNCHANGED backends

\* Either proxy route with a live session: look the backend up, touch the
\* session, build the request and await the body and the upstream's answer.
proxy_forward(route, host, token) ==
    /\ loop = NoTask
    /\ conn.pc = "none"
    /\ ~no_cookies(host, token)
    /\ has_live_session(host, token)
    /\ conn' = [NoConn EXCEPT !.pc = "forwarding", !.route = route,
                              !.port = backends[session_key(host, token)].port,
                              !.session = SessionState(host, token),
                              !.sends = 1]
    /\ backends' = touch_session(backends, host, token, now)
    /\ UNCHANGED <<lock, loop, procs, dirs, nextId, now, advances, call, WS_CONNECTIONS, last>>
    /\ UNCHANGED <<wire, bridges>>

\* The handler sending the request a second time when the first send raised.
proxy_response_retry(ok) ==
    /\ loop = NoTask
    /\ conn.pc = "forwarding"
    /\ ok => PortAccepts(procs, conn.port)
    /\ IF ~ok /\ conn.sends < 2
       THEN /\ conn' = [conn EXCEPT !.sends = @ + 1]
            /\ UNCHANGED last
       ELSE /\ last' = [Response(conn.route, IF ok THEN 200 ELSE 502)
                          EXCEPT !.session = conn.session]
            /\ conn' = NoConn
    /\ UNCHANGED <<backends, lock, loop, procs, dirs, nextId, now, advances,
                   call, WS_CONNECTIONS>>
    /\ UNCHANGED <<wire, bridges>>

\* client.send returns the upstream response, which is relayed, or raises
\* httpx.HTTPError, which is answered with 502.
proxy_response(ok) ==
    /\ loop = NoTask
    /\ conn.pc = "forwarding"
    /\ ok => PortAccepts(procs, conn.port)
    /\ last' = [Response(conn.route, IF ok THEN 200 ELSE 502)
                  EXCEPT !.session = conn.session]
    /\ conn' = NoConn
    /\ UNCHANGED <<backends, lock, loop, procs, dirs, nextId, now, advances,
                   call, WS_CONNECTIONS>>
    /\ UNCHANGED <<wire, bridges>>

----------------------------------------------------------------------------
(* HTTP headers of a proxied exchange *)

(***************************************************************************)
(* A header list is a sequence of <<name, value>> pairs in wire order; a   *)
(* name is one chunk, a value a sequence of chunks.  A Python dict is a    *)
(* sequence of pairs with distinct names, in insertion order.              *)
(***************************************************************************)

MaxHeaders == 2

HeaderNames == { "x-tag", "set-cookie", "content-type", "host", "expect",
                 "accept-encoding", "content-length", "Upgrade" }
HeaderValues == { <<"1">>, <<"2">> }
HeaderLists == UNION { [1..n -> HeaderNames \X HeaderValues] : n \in 0..MaxHeaders }

\* str.lower() on the header names of the model.
lower(k) == IF k = "Upgrade" THEN "upgrade" ELSE k

HOP_BY_HOP == { "connection", "keep-alive", "proxy-authenticate",
                "proxy-authorization", "te", "trailers", "transfer-encoding",
                "upgrade" }

is_hop_by_hop(h) == lower(h) \in HOP_BY_HOP

\* The condition under which each route leaves a request header out.
request_skips(route, k) ==
    IF route = "http_proxy"
    THEN is_hop_by_hop(k) \/ lower(k) \in { "content-length", "accept-encoding" }
    ELSE lower(k) \in { "connection", "keep-alive", "proxy-authenticate",
                        "proxy-authorization", "te", "trailers",
                        "transfer-encoding", "upgrade", "content-length",
                        "accept-encoding" }

\* The condition under which each route leaves a response header out.
response_skips(route, k) ==
    IF route = "http_proxy"
    THEN is_hop_by_hop(k) \/ lower(k) = "content-length"
    ELSE lower(k) \in { "connection", "keep-alive", "proxy-authenticate",
                        "proxy-authorization", "te", "trailers",
                        "transfer-encoding", "upgrade", "content-length" }

\* d[k] = v on a dict: an existing name keeps its position, a new one is added last.
dict_set(d, k, v) ==
    IF \E i \in 1..Len(d) : d[i][1] = k
    THEN [i \in 1..Len(d) |-> IF d[i][1] = k THEN <<k, v>> ELSE d[i]]
    ELSE Append(d, <<k, v>>)

\* d.pop(k, None)
dict_pop(d, k) == SelectSeq(d, LAMBDA kv : kv[1] # k)

\* {k: v for k, v in items}: the items are stored one after the other.
RECURSIVE dict_of(_)
dict_of(items) ==
    IF items = Empty THEN Empty
    ELSE dict_set(dict_of(SubSeq(items, 1, Len(items) - 1)),
                  items[Len(items)][1], items[Len(items)][2])

backend_address(port) == <<"127.0.0.1:", ToString(port)>>

\* The headers sent to the backend for the request headers hs.
request_headers(route, hs, port) ==
    dict_pop(dict_set(dict_of(SelectSeq(hs, LAMBDA kv : ~request_skips(route, kv[1]))),
                      "host", backend_address(port)),
             "expect")

\* Headers.get(name): the values of the name, joined with ", "; Empty for None.
RECURSIVE join(_)
join(vs) ==
    IF vs = Empty THEN Empty
    ELSE IF Len(vs) = 1 THEN vs[1]
    ELSE vs[1] \o <<", ">> \o join(Tail(vs))

values_of(hs, name) ==
    LET sel == SelectSeq(hs, LAMBDA kv : lower(kv[1]) = name)
    IN  [i \in 1..Len(sel) |-> sel[i][2]]

headers_get(hs, name) == join(values_of(hs, name))

\* Response(content, status_code, media_type): the response starts with its
\* own content-length and, if media_type is not None, its own content-type.
Response_raw_headers(media_type) ==
    <<<<"content-length", <<"len(content)">>>>>>
    \o (IF media_type = Empty THEN Empty ELSE <<<<"content-type", media_type>>>>)

\* The headers sent to the caller for the backend's response headers hs.
response_headers(route, hs) ==
    Response_raw_headers(headers_get(hs, "content-type"))
    \o SelectSeq(hs, LAMBDA kv : ~response_skips(route, kv[1]))

ProxyRoutes == { "http_proxy", "absolute_proxy" }

\* The request line of a proxied exchange: a path is a sequence of chunks, a
\* chunk being a run of plain characters ("x"), a separator or a
\* percent-encoded character.
MaxPath == 2

PathChunks == { "x", "%20", "%2F", "%3F" }
RawPaths == UNION { [1..n -> PathChunks] : n \in 0..MaxPath }
Queries == { Empty, <<"q=1">> }
Methods == { "GET", "POST" }

\* The prefix of the inbound path that the route itself matches.
route_prefix(route) == IF route = "http_proxy" THEN <<"/goose/">> ELSE <<"/">>

\* The server's percent-decoding of the path, from which the route's `path`
\* parameter is taken.
unquote(c) ==
    CASE c = "%20" -> " "
      [] c = "%2F" -> "/"
      [] c = "%3F" -> "?"
      [] OTHER -> c

path_param(raw) == [i \in 1..Len(raw) |-> unquote(raw[i])]

\* target = f"http://{BACKEND_HOST}:{backend.port}/{path}", plus "?" and the
\* query string if there is one.
proxy_target(port, path, query) ==
    <<"http://", backend_address(port), "/">> \o path
    \o (IF query # Empty THEN <<"?">> \o query ELSE Empty)

\* The position of the first "?" of a string, or 0.
RECURSIVE first_question_mark(_, _)
first_question_mark(str, i) ==
    IF i > Len(str) THEN 0
    ELSE IF str[i] = "?" THEN i
    ELSE first_question_mark(str, i + 1)

\* The client's encoding of a path: what is not allowed in a path is quoted.
quote(c) == IF c = " " THEN "%20" ELSE c

\* client.build_request(method, target): the URL is split into authority,
\* path (up to the first "?", quoted) and query (what follows it).
build_request(method, target) ==
    LET rest == SubSeq(target, 4, Len(target))
        q    == first_question_mark(rest, 1)
        path == IF q = 0 THEN rest ELSE SubSeq(rest, 1, q - 1)
    IN  [method |-> method,
         authority |-> target[2],
         path  |-> <<"/">> \o [i \in 1..Len(path) |-> quote(path[i])],
         query |-> IF q = 0 THEN Empty ELSE SubSeq(rest, q + 1, Len(rest))]

\* A request line arrives on a proxy route for a live session whose handle
\* has `port`, and the outbound request is built.
proxy_request_line(route, method, raw, query, port) ==
    /\ loop = NoTask
    /\ wire = NoWire
    /\ wire' = [NoWire EXCEPT
                  !.inbound = << [method |-> method, authority |-> backend_address(port),
                                  path |-> route_prefix(route) \o raw,
                                  query |-> query] >>,
                  !.outbound = << build_request(method,
                                     proxy_target(port, path_param(raw), query)) >>]
    /\ UNCHANGED <<backends, lock, loop, procs, dirs, nextId, now, advances,
                   call, conn, WS_CONNECTIONS, last, bridges>>

\* The handler has returned: its header lists are gone.
proxy_returns ==
    /\ loop = NoTask
    /\ wire # NoWire
    /\ wire' = NoWire
    /\ UNCHANGED <<backends, lock, loop, procs, dirs, nextId, now, advances,
                   call, conn, WS_CONNECTIONS, last, bridges>>

\* The router: the HTTP routes of the application in the order of their
\* registration (stacked decorators register bottom-up).  A route has a literal
\* path, or a literal prefix followed by a {path:path} parameter that matches
\* any remainder; paths are written without their leading "/".
AllMethods == { "GET", "POST", "PUT", "PATCH", "DELETE", "OPTIONS", "HEAD" }

app_routes ==
    << [path |-> <<"_health">>, param |-> FALSE, methods |-> {"GET"}, endpoint |-> "health"],
       [path |-> Empty, param |-> FALSE, methods |-> {"GET"}, endpoint |-> "home"],
       [path |-> <<"start">>, param |-> FALSE, methods |-> {"POST"}, endpoint |-> "start"],
       [path |-> <<"logout">>, param |-> FALSE, methods |-> {"GET"}, endpoint |-> "logout"],
       [path |-> <<"heartbeat">>, param |-> FALSE, methods |-> {"POST"}, endpoint |-> "heartbeat"],
       [path |-> <<"goose", "/">>, param |-> TRUE, methods |-> AllMethods, endpoint |-> "http_proxy"],
       [path |-> <<"goose", "/">>, param |-> FALSE, methods |-> AllMethods, endpoint |-> "http_proxy"],
       [path |-> <<"goose">>, param |-> FALSE, methods |-> AllMethods, endpoint |-> "http_proxy"],
       [path |-> Empty, param |-> TRUE, methods |-> AllMethods, endpoint |-> "absolute_proxy"] >>

\* The request paths and methods of the model: the control routes, the proxy
\* prefix and a path no route names; the method each control route is
\* registered for and two it is not.
RequestPaths ==
    { Empty, <<"_health">>, <<"start">>, <<"logout">>, <<"heartbeat">>,
      <<"goose">>, <<"goose", "/", "x">>, <<"x">> }
RequestMethods == { "GET", "POST", "DELETE" }

\* Whether the path of a request matches that of a route.
path_matches(r, path) ==
    IF r.param
    THEN Len(path) >= Len(r.path) /\ SubSeq(path, 1, Len(r.path)) = r.path
    ELSE path = r.path

\* Route.matches: no match, a match of the path only, a match of path and
\* method.
route_matches(r, method, path) ==
    IF ~path_matches(r, path) THEN "NONE"
    ELSE IF method \in r.methods THEN "FULL"
    ELSE "PARTIAL"

\* The first route from position i on whose match is `kind`, or 0.
RECURSIVE first_match(_, _, _, _)
first_match(i, method, path, kind) ==
    IF i > Len(app_routes) THEN 0
    ELSE IF route_matches(app_routes[i], method, path) = kind THEN i
    ELSE first_match(i + 1, method, path, kind)

\* The router's dispatch: the first full match handles the request; with no
\* full match a partial match answers 405, and no match at all 404.
dispatch(method, path) ==
    LET full    == first_match(1, method, path, "FULL")
        partial == first_match(1, method, path, "PARTIAL")
    IN  IF full # 0 THEN app_routes[full]
        ELSE IF partial # 0
        THEN [path |-> Empty, param |-> FALSE, methods |-> {}, endpoint |-> "method_not_allowed"]
        ELSE [path |-> Empty, param |-> FALSE, methods |-> {}, endpoint |-> "not_found"]

\* The value of the route's {path:path} parameter ("" for a literal route).
route_param(r, path) ==
    IF r.param THEN SubSeq(path, Len(r.path) + 1, Len(path)) ELSE Empty

\* A request for `path` is dispatched to one of the two proxy handlers and
\* finds a live session: the handler looks the backend up, touches the
\* session, builds the outbound request and awaits the upstream's answer.
proxy_dispatched(method, path, host, token) ==
    /\ loop = NoTask
    /\ conn.pc = "none"
    /\ wire = NoWire
    /\ dispatch(method, path).endpoint \in {"http_proxy", "absolute_proxy"}
    /\ ~no_cookies(host, token)
    /\ has_live_session(host, token)
    /\ LET r    == dispatch(method, path)
           port == backends[session_key(host, token)].port
       IN  /\ conn' = [NoConn EXCEPT !.pc = "forwarding",
                                     !.route = IF r.endpoint = "http_proxy"
                                               THEN "goose" ELSE "abs",
                                     !.port = port,
                                     !.session = SessionState(host, token),
                                     !.sends = 1]
           /\ wire' = [NoWire EXCEPT
                         !.inbound = << [method |-> method,
                                         authority |-> backend_address(port),
                                         path |-> <<"/">> \o path,
                                         query |-> Empty] >>,
                         !.outbound = << build_request(method,
                                            proxy_target(port, route_param(r, path), Empty)) >>]
    /\ backends' = touch_session(backends, host, token, now)
    /\ UNCHANGED <<lock, loop, procs, dirs, nextId, now, advances, call,
                   WS_CONNECTIONS, last, bridges>>

\* The request half of a proxied exchange: the request's headers hs are
\* rewritten and sent to the backend on `port`.
proxy_request_headers(route, hs, port) ==
    /\ loop = NoTask
    /\ wire = NoWire
    /\ wire' = [NoWire EXCEPT !.request = hs,
                              !.forwarded = request_headers(route, hs, port)]
    /\ UNCHANGED <<backends, lock, loop, procs, dirs, nextId, now, advances,
                   call, conn, WS_CONNECTIONS, last, bridges>>

\* The response half: the backend's response headers hs are relayed.  The
\* two halves do not depend on each other's headers and are taken one at a time.
proxy_response_headers(route, hs) ==
    /\ loop = NoTask
    /\ wire = NoWire
    /\ wire' = [NoWire EXCEPT !.upstream = hs,
                              !.response = response_headers(route, hs)]
    /\ UNCHANGED <<backends, lock, loop, procs, dirs, nextId, now, advances,
                   call, conn, WS_CONNECTIONS, last, bridges>>


---------------------------------------------------------------------------
(* WebSocket bridge: _ws_bridge *)

\* _ws_bridge touching the session before it tests it.
ws_no_session_touches(host, token) ==
    /\ loop = NoTask
    /\ conn.pc = "none"
    /\ no_cookies(host, token) \/ ~has_live_session(host, token)
    /\ backends' = touch_session(backends, host, token, now)
    /\ last' = [Response("ws", 4401) EXCEPT !.session = SessionState(host, token)]
    /\ UNCHANGED <<lock, loop, procs, dirs, nextId, now, advances,
                   call, conn, WS_CONNECTIONS>>
    /\ UNCHANGED <<wire, bridges>>

\* No live session: close(code=4401).
ws_no_session(host, token) ==
    /\ loop = NoTask
    /\ conn.pc = "none"
    /\ no_cookies(host, token) \/ ~has_live_session(host, token)
    /\ last' = [Response("ws", 4401) EXCEPT !.session = SessionState(host, token)]
    /\ UNCHANGED <<backends, lock, loop, procs, dirs, nextId, now, advances,
                   call, conn, WS_CONNECTIONS>>
    /\ UNCHANGED <<wire, bridges>>

\* Live session: look the backend up and await websockets.connect.
ws_connect(host, token) ==
    /\ loop = NoTask
    /\ conn.pc = "none"
    /\ ~no_cookies(host, token)
    /\ has_live_session(host, token)
    /\ conn' = [pc |-> "connecting", route |-> "ws", host |-> host,
                token |-> token, port |-> backends[session_key(host, token)].port,
                session |-> SessionState(host, token), sends |-> 0]
    /\ UNCHANGED <<backends, lock, loop, procs, dirs, nextId, now, advances,
                   call, WS_CONNECTIONS, last>>
    /\ UNCHANGED <<wire, bridges>>

\* _ws_bridge with websockets.connect inside the try/finally of the gather.
ws_connect_failed_counted ==
    /\ loop = NoTask
    /\ conn.pc = "connecting"
    /\ conn' = NoConn
    /\ last' = [Response("ws", 1013) EXCEPT !.session = conn.session]
    /\ WS_CONNECTIONS' = WS_CONNECTIONS - 1
    /\ UNCHANGED <<backends, lock, loop, procs, dirs, nextId, now, advances,
                   call>>
    /\ UNCHANGED <<wire, bridges>>

\* websockets.connect raised: close(code=1013).
ws_connect_failed ==
    /\ loop = NoTask
    /\ conn.pc = "connecting"
    /\ conn' = NoConn
    /\ last' = [Response("ws", 1013) EXCEPT !.session = conn.session]
    /\ UNCHANGED <<backends, lock, loop, procs, dirs, nextId, now, advances,
                   call, WS_CONNECTIONS>>
    /\ UNCHANGED <<wire, bridges>>

\* The upstream connection is open: accept the client, count it, touch.
ws_accept ==
    /\ loop = NoTask
    /\ conn.pc = "connecting"
    /\ PortAccepts(procs, conn.port)
    /\ conn' = [conn EXCEPT !.pc = "open"]
    /\ WS_CONNECTIONS' = WS_CONNECTIONS + 1
    /\ backends' = touch_session(backends, conn.host, conn.token, now)
    /\ UNCHANGED <<lock, loop, procs, dirs, nextId, now, advances, call,
                   last>>
    /\ UNCHANGED <<wire, bridges>>

\* A frame is relayed in either direction: touch.
ws_relay ==
    /\ loop = NoTask
    /\ conn.pc = "open"
    /\ backends' = touch_session(backends, conn.host, conn.token, now)
    /\ UNCHANGED <<lock, loop, procs, dirs, nextId, now, advances, call, conn,
                    WS_CONNECTIONS, last>>
    /\ UNCHANGED <<wire, bridges>>

\* Both relay loops have ended: the `finally` of the gather.
ws_finish ==
    /\ loop = NoTask
    /\ conn.pc = "open"
    /\ conn' = NoConn
    /\ WS_CONNECTIONS' = WS_CONNECTIONS - 1
    /\ UNCHANGED <<backends, lock, loop, procs, dirs, nextId, now, advances,
                   call, last>>
    /\ UNCHANGED <<wire, bridges>>

---------------------------------------------------------------------------
(* WebSocket bridge in detail: the two relay loops of _ws_bridge *)

\* The message websocket.receive() returns for the client's frame f.
websocket_receive(f) ==
    [type |-> "websocket.receive",
     text |-> IF f.type = "text" THEN f.data ELSE None,
     bytes |-> IF f.type = "bytes" THEN f.data ELSE None]

\* client_to_upstream without its `elif` branch: only text is passed on.
upstream_send_text_only(m) ==
    IF m.text # None THEN << [type |-> "text", data |-> m.text] >> ELSE Empty

\* The frames client_to_upstream sends to the backend for the message m: a
\* str is sent as a text frame, bytes as a binary frame.
upstream_send(m) ==
    IF m.text # None THEN << [type |-> "text", data |-> m.text] >>
    ELSE IF m.bytes # None THEN << [type |-> "bytes", data |-> m.bytes] >>
    ELSE Empty

\* What `async for data in upstream` yields for the backend's frame f.
upstream_recv(f) == [isstr |-> f.type = "text", value |-> f.data]

\* The frame upstream_to_client sends to the client for data d.
websocket_send(d) ==
    IF d.isstr THEN << [type |-> "text", data |-> d.value] >>
    ELSE << [type |-> "bytes", data |-> d.value] >>

\* The counter after the gather without try/finally: a raising loop skips it.
after_gather_no_finally(n, raised) == IF raised THEN n ELSE n - 1

\* The counter after `try: await gather(...) finally: WS_CONNECTIONS -= 1`.
after_gather(n, raised) == n - 1

UpstreamClosed == { "closed_ok", "closed_error", "closed" }

SetBridge(w, b) ==
    /\ bridges' = [bridges EXCEPT ![w] = b]
    /\ UNCHANGED <<lock, loop, procs, dirs, nextId, now, advances, call, conn,
                   last, wire>>

\* No live session: close(code=4401).
bridge_no_session(w, host, token) ==
    /\ loop = NoTask
    /\ bridges[w].pc = "none"
    /\ no_cookies(host, token) \/ ~has_live_session(host, token)
    /\ SetBridge(w, [NoBridge EXCEPT !.pc = "done", !.code = 4401,
                                     !.client = "closed"])
    /\ UNCHANGED <<backends, WS_CONNECTIONS>>

\* Live session: look the backend up and await websockets.connect.
bridge_connect(w, host, token) ==
    /\ loop = NoTask
    /\ bridges[w].pc = "none"
    /\ ~no_cookies(host, token)
    /\ has_live_session(host, token)
    /\ SetBridge(w, [NoBridge EXCEPT !.pc = "connecting", !.host = host,
                        !.token = token,
                        !.port = backends[session_key(host, token)].port])
    /\ UNCHANGED <<backends, WS_CONNECTIONS>>

\* websockets.connect raised: close(code=1013).
bridge_connect_failed(w) ==
    /\ loop = NoTask
    /\ bridges[w].pc = "connecting"
    /\ SetBridge(w, [bridges[w] EXCEPT !.pc = "done", !.code = 1013,
                                       !.client = "closed"])
    /\ UNCHANGED <<backends, WS_CONNECTIONS>>

\* websockets.connect returned: the upstream connection is open and
\* websocket.accept is awaited.
bridge_connected(w) ==
    /\ loop = NoTask
    /\ bridges[w].pc = "connecting"
    /\ PortAccepts(procs, bridges[w].port)
    /\ SetBridge(w, [bridges[w] EXCEPT !.pc = "accepting", !.upstream = "open"])
    /\ UNCHANGED <<backends, WS_CONNECTIONS>>

\* accept returned: count the connection, touch, start the two loops.
bridge_accept(w) ==
    /\ loop = NoTask
    /\ bridges[w].pc = "accepting"
    /\ bridges[w].client = "connecting"
    /\ SetBridge(w, [bridges[w] EXCEPT !.pc = "relaying", !.client = "open",
                                       !.c2u = "receive", !.u2c = "recv"])
    /\ WS_CONNECTIONS' = WS_CONNECTIONS + 1
    /\ backends' = touch_session(backends, bridges[w].host, bridges[w].token, now)

\* accept raised (the client is gone): close the upstream connection, return.
bridge_accept_failed(w) ==
    /\ loop = NoTask
    /\ bridges[w].pc = "accepting"
    /\ bridges[w].client = "closed"
    /\ SetBridge(w, [bridges[w] EXCEPT !.pc = "done",
                        !.upstream = IF @ = "open" THEN "closed" ELSE @])
    /\ UNCHANGED <<backends, WS_CONNECTIONS>>

\* client_to_upstream at `await websocket.receive()`: the next frame of the
\* client, or, the client being gone, the disconnect: upstream.close(), break.
c2u_receive(w) ==
    /\ loop = NoTask
    /\ bridges[w].pc = "relaying"
    /\ bridges[w].c2u = "receive"
    /\ IF bridges[w].inbox # Empty
       THEN SetBridge(w, [bridges[w] EXCEPT
                            !.msg = << websocket_receive(Head(bridges[w].inbox)) >>,
                            !.inbox = Tail(@), !.c2u = "send"])
       ELSE /\ bridges[w].client = "closed"
            /\ SetBridge(w, [bridges[w] EXCEPT !.c2u = "done",
                                !.upstream = IF @ = "open" THEN "closed" ELSE @])
    /\ UNCHANGED <<backends, WS_CONNECTIONS>>

\* client_to_upstream at `await upstream.send(...)`: the message goes to the
\* backend and the session is touched; on a closed upstream connection send
\* raises ConnectionClosed, which the loop does not catch.
c2u_send(w) ==
    /\ loop = NoTask
    /\ bridges[w].pc = "relaying"
    /\ bridges[w].c2u = "send"
    /\ IF bridges[w].upstream = "open"
       THEN /\ SetBridge(w, [bridges[w] EXCEPT
                               !.backend_received = @ \o upstream_send(bridges[w].msg[1]),
                               !.msg = Empty, !.c2u = "receive"])
            /\ backends' = touch_session(backends, bridges[w].host,
                                         bridges[w].token, now)
       ELSE /\ SetBridge(w, [bridges[w] EXCEPT !.msg = Empty, !.c2u = "raised"])
            /\ UNCHANGED backends
    /\ UNCHANGED WS_CONNECTIONS

\* upstream_to_client at `async for data in upstream`: the next frame of the
\* backend; or, after a normal close, the end of the iteration; or, after an
\* abnormal close, ConnectionClosedError: websocket.close().  A loop whose
\* handler has already left the gather goes on until its own end.
u2c_next(w) ==
    /\ loop = NoTask
    /\ bridges[w].pc \in {"relaying", "done"}
    /\ bridges[w].u2c = "recv"
    /\ IF bridges[w].outbox # Empty
       THEN SetBridge(w, [bridges[w] EXCEPT
                            !.data = << upstream_recv(Head(bridges[w].outbox)) >>,
                            !.outbox = Tail(@), !.u2c = "send"])
       ELSE /\ bridges[w].upstream \in UpstreamClosed
            /\ SetBridge(w, [bridges[w] EXCEPT !.u2c = "done",
                                !.client = IF bridges[w].upstream = "closed_error"
                                           THEN "closed" ELSE @])
    /\ UNCHANGED <<backends, WS_CONNECTIONS>>

\* upstream_to_client at `await websocket.send_text / send_bytes`: the frame
\* goes to the client and the session is touched; if the client is gone the
\* send raises, websocket.close() is tried and the loop ends.
u2c_send(w) ==
    /\ loop = NoTask
    /\ bridges[w].pc \in {"relaying", "done"}
    /\ bridges[w].u2c = "send"
    /\ IF bridges[w].client = "open"
       THEN /\ SetBridge(w, [bridges[w] EXCEPT
                               !.client_received = @ \o websocket_send(bridges[w].data[1]),
                               !.data = Empty, !.u2c = "recv"])
            /\ backends' = touch_session(backends, bridges[w].host,
                                         bridges[w].token, now)
       ELSE /\ SetBridge(w, [bridges[w] EXCEPT !.data = Empty, !.u2c = "done"])
            /\ UNCHANGED backends
    /\ UNCHANGED WS_CONNECTIONS

\* The gather is over: both loops returned, or client_to_upstream raised (the
\* exception leaves the handler and the server closes the client connection).
\* The `finally` takes the connection off the count.
bridge_finish(w) ==
    /\ loop = NoTask
    /\ bridges[w].pc = "relaying"
    /\ \/ bridges[w].c2u = "raised"
       \/ bridges[w].c2u = "done" /\ bridges[w].u2c = "done"
    /\ SetBridge(w, [bridges[w] EXCEPT !.pc = "done",
                        !.client = IF bridges[w].c2u = "raised" THEN "closed" ELSE @])
    /\ WS_CONNECTIONS' = after_gather(WS_CONNECTIONS, bridges[w].c2u = "raised")
    /\ UNCHANGED backends

\* The client sends a frame on its open connection.
client_sends(w, f, n) ==
    /\ bridges[w].pc = "relaying"
    /\ bridges[w].client = "open"
    /\ Len(bridges[w].client_sent) < n
    /\ SetBridge(w, [bridges[w] EXCEPT !.client_sent = Append(@, f),
                                       !.inbox = Append(@, f)])
    /\ UNCHANGED <<backends, WS_CONNECTIONS>>

\* The client goes away: during the handshake or on the open connection.
client_disconnects(w) ==
    /\ bridges[w].pc \in {"connecting", "accepting", "relaying"}
    /\ bridges[w].client \in {"connecting", "open"}
    /\ SetBridge(w, [bridges[w] EXCEPT !.client = "closed"])
    /\ UNCHANGED <<backends, WS_CONNECTIONS>>

\* The backend sends a frame on its open connection.
backend_sends(w, f, n) ==
    /\ bridges[w].upstream = "open"
    /\ Len(bridges[w].backend_sent) < n
    /\ SetBridge(w, [bridges[w] EXCEPT !.backend_sent = Append(@, f),
                                       !.outbox = Append(@, f)])
    /\ UNCHANGED <<backends, WS_CONNECTIONS>>

\* The backend closes its side: with a close frame (ok) or without (error).
backend_closes(w, how) ==
    /\ bridges[w].upstream = "open"
    /\ SetBridge(w, [bridges[w] EXCEPT !.upstream = how])
    /\ UNCHANGED <<backends, WS_CONNECTIONS>>

---------------------------------------------------------------------------
(* The environment: child processes and time *)

\* A child binds its port and starts accepting connections.
backend_listens(p) ==
    /\ procs[p].state = "starting"
    /\ ~PortAccepts(procs, procs[p].port)
    /\ procs' = [procs EXCEPT ![p].state = "listening"]
    /\ UNCHANGED <<backends, lock, loop, dirs, nextId, now, advances, call,
                   conn, WS_CONNECTIONS, last>>
    /\ UNCHANGED <<wire, bridges>>

\* A child exits on its own or is killed from outside the proxy.
backend_exits(p) ==
    /\ poll_is_None(procs, p)
    /\ procs' = [procs EXCEPT ![p].state = "exited"]
    /\ UNCHANGED <<backends, lock, loop, dirs, nextId, now, advances, call,
                   conn, WS_CONNECTIONS, last>>
    /\ UNCHANGED <<wire, bridges>>

\* Time passes.
advance(d) ==
    /\ advances < MaxAdvances
    /\ now' = now + d
    /\ advances' = advances + 1
    /\ UNCHANGED <<backends, lock, loop, procs, dirs, nextId, call, conn,
                   WS_CONNECTIONS, last>>
    /\ UNCHANGED <<wire, bridges>>

---------------------------------------------------------------------------
(* Inputs *)

\* The cookie pairs (goose_host, goose_token) a request can carry.
Cookies ==
    { <<Empty, Empty>>, <<<<"https://", "a", "/">>, Empty>>,
      <<<<"https://", "a", "/">>, <<"t">>>>, <<<<"https://", "b", "/">>, <<"t">>>> }

\* The entries the next reaper tick finds expired.
Expired == { k \in DOMAIN backends : reaper_expired(procs, backends[k], now) }

\* POST /start from the callers of C with the hosts of H, get_free_port
\* answering from P.
Provisioning(C, H, P) ==
    \/ \E c \in C, h \in H, t \in Tokens : start_bad_host(c, h, t)
    \/ \E c \in C, h \in H, t \in Tokens : start_reuse(c, h, t)
    \/ \E c \in C, h \in H, t \in Tokens, port \in P :
          start_provision(c, h, t, port)
    \/ \E c \in C, ok \in BOOLEAN : session_copy_and_sync(c, ok)
    \/ \E c \in C, ok \in BOOLEAN : spawn(c, ok)
    \/ \E c \in C : wait_connected(c)
    \/ \E c \in C : wait_ready(c)
    \/ \E c \in C : wait_timeout(c)

\* Form values of POST /start in which the separator of session_key occurs:
\* a host and a token without it, a host that contains it, a token that
\* contains it.
KeyHosts == { Empty, <<"a">>, <<"a", "/", "::", "t", "/">> }
KeyTokens == { <<"t">>, <<"t", "/", "::", "t">> }

\* The (host, token) pairs that POST /start sets as cookies for those values.
KeyIdentities ==
    { <<normalize_host(h), t>> : h \in { x \in KeyHosts : ~NormalizeFails(x) },
                                 t \in KeyTokens }

\* POST /start with those form values, and proxied requests carrying the
\* cookies it sets.
KeyLogins ==
    \/ \E h \in KeyHosts, t \in KeyTokens : start_bad_host(1, h, t)
    \/ \E h \in KeyHosts, t \in KeyTokens : start_reuse(1, h, t)
    \/ \E h \in KeyHosts, t \in KeyTokens : start_provision(1, h, t, nextId)
    \/ \E ok \in BOOLEAN : session_copy_and_sync(1, ok)
    \/ \E ok \in BOOLEAN : spawn(1, ok)
    \/ wait_connected(1)
    \/ wait_ready(1)
    \/ wait_timeout(1)
    \/ \E route \in {"goose", "abs"}, id \in KeyIdentities :
          proxy_forward(route, id[1], id[2])
    \/ \E ok \in BOOLEAN : proxy_response(ok)

\* GET /logout, the cleanup steps coming to the outcomes of O and R when there
\* is an entry for them to run on.
Logout(O, R) ==
    \E ck \in Cookies :
        IF ~no_cookies(ck[1], ck[2]) /\ session_key(ck[1], ck[2]) \in DOMAIN backends
        THEN \E o \in O, rm \in R : logout(ck[1], ck[2], o, rm)
        ELSE logout(ck[1], ck[2], "terminated", TRUE)

\* A tick of the reaper, the cleanup steps coming to the outcomes of O and R.
Reaper(O, R) ==
    \E out \in [Expired -> O], rm \in [Expired -> R] : idle_reaper(out, rm)

Control ==
    \/ \E ck \in Cookies : home(ck[1], ck[2])
    \/ \E ck \in Cookies : heartbeat(ck[1], ck[2])

HttpProxy ==
    \/ \E ck \in Cookies, nav \in BOOLEAN : http_proxy_no_session(ck[1], ck[2], nav)
    \/ \E ck \in Cookies, nav \in BOOLEAN, pe \in BOOLEAN :
          absolute_proxy_no_session(ck[1], ck[2], nav, pe)
    \/ \E route \in {"goose", "abs"}, ck \in Cookies : proxy_forward(route, ck[1], ck[2])
    \/ \E ok \in BOOLEAN : proxy_response(ok)

WsBridge ==
    \/ \E ck \in Cookies : ws_no_session(ck[1], ck[2])
    \/ \E ck \in Cookies : ws_connect(ck[1], ck[2])
    \/ ws_connect_failed
    \/ ws_accept
    \/ ws_relay
    \/ ws_finish

\* The children: a backend starts listening, or exits on its own.
Children ==
    \/ \E p \in DOMAIN procs : backend_listens(p)
    \/ \E p \in DOMAIN procs : backend_exits(p)

\* The clock, advancing by one of the amounts of D.
Clock(D) == \E d \in D : advance(d)

\* The clock advancing while a readiness wait is under way: the only time that
\* a deadline can pass.
ClockWhileWaiting(D) ==
    /\ \E c \in Callers : call[c].pc = "wait"
    /\ Clock(D)

\* Long enough for a readiness wait to run out, and for a session to go idle.
PastDeadline == { timeout_s + 1 }
PastIdle == { INACTIVITY_SECS + 1 }

\* Exactly the inactivity threshold, and one second more.
AroundIdle == { INACTIVITY_SECS, INACTIVITY_SECS + 1 }

\* Cleanup that succeeds.
Clean == { "terminated" }
Removed == { TRUE }

\* WebSocket connections on the bridges of W, each side sending up to n
\* frames of F.
WsRelay(W, F, n) ==
    \/ \E w \in W, ck \in Cookies : bridge_no_session(w, ck[1], ck[2])
    \/ \E w \in W, ck \in Cookies : bridge_connect(w, ck[1], ck[2])
    \/ \E w \in W : bridge_connect_failed(w)
    \/ \E w \in W : bridge_connected(w)
    \/ \E w \in W : bridge_accept(w)
    \/ \E w \in W : bridge_accept_failed(w)
    \/ \E w \in W : c2u_receive(w)
    \/ \E w \in W : c2u_send(w)
    \/ \E w \in W : u2c_next(w)
    \/ \E w \in W : u2c_send(w)
    \/ \E w \in W : bridge_finish(w)
    \/ \E w \in W, f \in F : client_sends(w, f, n)
    \/ \E w \in W : client_disconnects(w)
    \/ \E w \in W, f \in F : backend_sends(w, f, n)
    \/ \E w \in W, how \in {"closed_ok", "closed_error"} : backend_closes(w, how)

\* One session is provisioned and its backend starts listening.
OneSession ==
    \/ \E t \in Tokens : start_provision(1, <<"a">>, t, nextId)
    \/ session_copy_and_sync(1, TRUE)
    \/ spawn(1, TRUE)
    \/ wait_connected(1)
    \/ wait_ready(1)
    \/ \E p \in DOMAIN procs : backend_listens(p)

---------------------------------------------------------------------------
(* Specifications *)

\* Every handler around one session: one POST /start in flight at a time, one
\* host to log in to (requests can still carry the cookies of another), cleanup
\* that succeeds.
Next ==
    \/ Provisioning({1}, OneHost, {nextId})
    \/ Logout(Clean, Removed)
    \/ Reaper(Clean, Removed)
    \/ Control
    \/ HttpProxy
    \/ WsBridge
    \/ Children
    \/ Clock(PastIdle)

Spec == Init /\ [][Next]_vars

\* Provisioning in depth: two concurrent POST /start handlers, logout, and a
\* clock that can run past the readiness deadline.
NextProv ==
    \/ Provisioning(Callers, RawHosts, {nextId})
    \/ Logout(Clean, Removed)
    \/ Children
    \/ ClockWhileWaiting(PastDeadline)

SpecProv == Init /\ [][NextProv]_vars

\* Teardown in depth: logout and the reaper under every outcome of the cleanup
\* steps.
NextTeardown ==
    \/ Provisioning({1}, RawHosts, {nextId})
    \/ Logout(Outcomes, BOOLEAN)
    \/ Reaper(Outcomes, BOOLEAN)
    \/ Children
    \/ Clock(PastIdle)

SpecTeardown == Init /\ [][NextTeardown]_vars

\* The reaper alone taking sessions down, under every outcome of the cleanup
\* steps.
NextReap ==
    \/ Provisioning({1}, RawHosts, {nextId})
    \/ Reaper(Outcomes, BOOLEAN)
    \/ Children
    \/ Clock(PastIdle)

SpecReap == Init /\ [][NextReap]_vars

\* The HTTP reverse proxy next to logins.
NextHttp ==
    \/ Provisioning({1}, RawHosts, {nextId})
    \/ HttpProxy
    \/ Children
    \/ Clock(PastDeadline)

SpecHttp == Init /\ [][NextHttp]_vars

\* Provisioning next to the proxying of live sessions, HTTP and WebSocket.
NextLive ==
    \/ Provisioning({1}, RawHosts, {nextId})
    \/ HttpProxy
    \/ WsBridge
    \/ Children
    \/ Clock(PastDeadline)

SpecLive == Init /\ [][NextLive]_vars

\* The reaper next to everything that touches a session, the clock stopping
\* at the inactivity threshold or just past it.
NextIdle ==
    \/ Provisioning({1}, OneHost, {nextId})
    \/ Reaper(Clean, Removed)
    \/ Control
    \/ HttpProxy
    \/ WsBridge
    \/ Children
    \/ Clock(AroundIdle)

SpecIdle == Init /\ [][NextIdle]_vars

\* Logins and proxied requests whose hosts and tokens contain the separator
\* of session_key.
NextKey ==
    \/ KeyLogins
    \/ Children
    \/ Clock(PastDeadline)

SpecKey == Init /\ [][NextKey]_vars

\* Requests for every path and method of the model, next to the control
\* routes.
Routed ==
    \/ /\ wire = NoWire
       /\ \E method \in RequestMethods, path \in RequestPaths, ck \in Cookies :
             proxy_dispatched(method, path, ck[1], ck[2])
    \/ \E ok \in BOOLEAN : proxy_response(ok)
    \/ proxy_returns

NextRoutes ==
    \/ OneSession
    \/ Logout(Clean, Removed)
    \/ Control
    \/ Routed

SpecRoutes == Init /\ [][NextRoutes]_vars

\* Logins, and the shutdown of the application under every outcome of the
\* cleanup steps.
NextShutdown ==
    \/ Provisioning({1}, RawHosts, {nextId})
    \/ \E out \in [DOMAIN backends -> Outcomes], rm \in [DOMAIN backends -> BOOLEAN] :
          shutdown(out, rm)
    \/ Children
    \/ Clock(PastDeadline)

SpecShutdown == Init /\ [][NextShutdown]_vars

\* One proxied exchange at a time, over every header list of the bound.
Headers ==
    \/ /\ wire = NoWire
       /\ \E route \in ProxyRoutes, hs \in HeaderLists, port \in Ports :
             proxy_request_headers(route, hs, port)
    \/ /\ wire = NoWire
       /\ \E route \in ProxyRoutes, hs \in HeaderLists :
             proxy_response_headers(route, hs)
    \/ proxy_returns

SpecHeaders == Init /\ [][Headers]_vars

\* One bridge relaying text and binary frames in both directions.
NextBridge ==
    \/ OneSession
    \/ WsRelay({1}, Frames, MaxFrames)

SpecBridge == Init /\ [][NextBridge]_vars

\* Two bridges at a time, each side sending at most one frame.
NextCount ==
    \/ OneSession
    \/ WsRelay(Bridges, TextFrames, 1)

SpecCount == Init /\ [][NextCount]_vars

\* Two identities, get_free_port answering with any port that nothing is
\* bound to at the moment of the call.
TwoHosts == { Empty, <<"a">>, <<"b", " ">> }

NextPorts ==
    \/ Provisioning(Callers, TwoHosts, Ports)
    \/ Children
    \/ Clock(PastDeadline)

SpecPorts == Init /\ [][NextPorts]_vars

\* One request line at a time, over every route, method, path and query of
\* the bound.
RequestLines ==
    \/ /\ wire = NoWire
       /\ \E route \in ProxyRoutes, method \in Methods, raw \in RawPaths,
             query \in Queries, port \in Ports :
             proxy_request_line(route, method, raw, query, port)
    \/ proxy_returns

SpecTarget == Init /\ [][RequestLines]_vars

---------------------------------------------------------------------------
(* Claims *)

\* The registry holds a running child for key.
LiveEntry(key) ==
    key \in DOMAIN backends /\ procs[backends[key].proc].state \in {"starting", "listening"}

\* The frame of caller c is inside ensure_backend's provisioning.
Provisioning_in_progress(c) == call[c].pc \in {"copy", "spawn", "wait", "closing"}

FrameKey(c) == session_key(call[c].host, call[c].token)

\* The form values POST /start accepts, each with the registry key it comes to.
StartInputs ==
    { [h |-> h, t |-> t, key |-> session_key(normalize_host(h), t)] :
        h \in { x \in RawHosts : ~NormalizeFails(x) }, t \in Tokens }

\* C1: while the registry holds a live handle for an identity, no POST /start
\* for that identity provisions again: ensure_backend enters start_backend, and
\* start_backend spawns, only when the registry has no live entry for the key;
\* and a caller that finds the live entry is handed that very entry (same
\* child, same port), nothing being spawned, created or replaced.  (The first
\* line of the third conjunct repeats what start_reuse itself requires, so
\* that the action is evaluated only on the steps that can be it.)
C1_ProvisionedOnce ==
    [][ /\ \A c \in Callers :
             (call[c].pc = "idle" /\ call'[c].pc = "copy")
             => ~LiveEntry(session_key(call'[c].host, call'[c].token))
        /\ \A c \in Callers :
             (call[c].pc = "spawn" /\ call'[c].pc = "wait") => ~LiveEntry(FrameKey(c))
        /\ \A c \in Callers, i \in StartInputs :
             (/\ loop = NoTask /\ call[c].pc = "idle" /\ now' = now /\ last'.op = "start"
              /\ last'.status = 303 /\ call' = call /\ procs' = procs
              /\ LiveEntry(i.key)
              /\ start_reuse(c, i.h, i.t))
             => /\ procs' = procs /\ dirs' = dirs /\ nextId' = nextId
                /\ call' = call
                /\ DOMAIN backends' = DOMAIN backends
                /\ backends'[i.key].proc = backends[i.key].proc
                /\ backends'[i.key].port = backends[i.key].port
                /\ last'.status = 303
                /\ last'.proc = backends[i.key].proc ]_vars

\* C1 witness: a second caller was handed the handle of a child that the first
\* caller, still in wait_for_port, spawned.
C1_Witness ==
    /\ last.op = "start" /\ last.status = 303 /\ last.session = "live"
    /\ \E c \in Callers : call[c].pc = "wait" /\ call[c].id = last.proc
                          /\ LiveEntry(FrameKey(c))

\* C2: POST /start is answered with the redirect (ensure_backend returned a
\* handle) only when the handle's port accepts connections.
C2_ReturnsOnlyReady ==
    [][ (last' # last /\ last'.op = "start" /\ last'.status = 303)
        => PortAccepts(procs, procs[last'.proc].port) ]_vars

\* C3: after a failed POST /start the registry holds no entry for the child of
\* that call.
C3_NoPartialEntry ==
    (last.op = "start" /\ last.status = 502)
    => \A k \in DOMAIN backends : backends[k].proc # last.proc

\* C4: when wait_for_port times out, the child is no longer running and its
\* working directory is gone by the time the failure is answered.
C4_TimeoutCleansUp ==
    [][ (last' # last /\ last'.why = "timeout")
        => /\ last'.proc \notin dirs'
           /\ ~poll_is_None(procs', last'.proc) ]_vars

\* C5 as stated: every registry entry refers to a running process.
C5_NoDeadEntry ==
    \A k \in DOMAIN backends : poll_is_None(procs, backends[k].proc)

\* C5 amended: every registry entry refers to a process that is running or
\* that ended without the proxy ending it (it exited on its own or was killed
\* from outside); a handle whose process the proxy terminated is no longer in
\* the registry.
C5_NoTerminatedEntry ==
    \A k \in DOMAIN backends : procs[backends[k].proc].state # "terminated"

\* C5 witness: the registry holds an entry whose child exited, and a child the
\* proxy terminated is no longer registered.
C5_Witness ==
    /\ \E k \in DOMAIN backends : procs[backends[k].proc].state = "exited"
    /\ \E p \in DOMAIN procs : procs[p].state = "terminated"

\* Proxying for the live sessions can take its next step.
ProxyingCanStep ==
    /\ \A ck \in Cookies :
         (conn.pc = "none" /\ SessionState(ck[1], ck[2]) = "live")
         => /\ ENABLED proxy_forward("goose", ck[1], ck[2])
            /\ ENABLED ws_connect(ck[1], ck[2])
    /\ conn.pc = "forwarding" => ENABLED proxy_response(FALSE)
    /\ conn.pc = "open" => ENABLED ws_relay

\* C6: while a provisioning is in progress, HTTP proxying and WebSocket
\* relaying for the live sessions can take steps.
C6_ProvisioningNeverBlocksProxy ==
    (\E c \in Callers : Provisioning_in_progress(c)) => ProxyingCanStep

\* C7: while identity A is being provisioned, POST /start for another identity
\* B that has no live handle can begin its own provisioning.
C7_NoCrossIdentitySerialization ==
    \A a \in Callers, b \in Callers, h \in RawHosts, t \in Tokens :
        (/\ a # b
         /\ Provisioning_in_progress(a)
         /\ call[b].pc = "idle"
         /\ ~NormalizeFails(h)
         /\ session_key(normalize_host(h), t) # FrameKey(a)
         /\ ~LiveEntry(session_key(normalize_host(h), t))
         /\ nextId <= MaxProv
         /\ get_free_port(procs) # {})
        => ENABLED (\E port \in Ports : start_provision(b, h, t, port))

\* C8: a step that adds a registry entry, replaces the child of one, spawns a
\* process or creates a working directory is the spawn or copy step of a
\* POST /start handler; no other handler and no reaper tick provisions.
C8_OnlyStartProvisions ==
    [][ (\/ DOMAIN procs' # DOMAIN procs
         \/ ~(dirs' \subseteq dirs)
         \/ \E k \in DOMAIN backends' :
               k \notin DOMAIN backends \/ backends'[k].proc # backends[k].proc)
        => \E c \in Callers : spawn(c, TRUE) \/ session_copy_and_sync(c, TRUE) ]_vars

\* C8 witness: past the inactivity threshold a session was torn down (by the
\* reaper or by logout); a /goose request then found no session and was sent
\* to the login page, and nothing is registered.
C8_Witness ==
    /\ last.op = "goose" /\ last.session = "absent" /\ last.status = 303
    /\ now > INACTIVITY_SECS
    /\ DOMAIN backends = {}
    /\ \E p \in DOMAIN procs : procs[p].state = "terminated"

\* C9: a /goose request whose identity has no registry entry, or whose entry's
\* process has exited, is answered with the redirect to / (303): it is never
\* forwarded and never answered 502.
C9_NotLiveRedirects ==
    (last.op = "goose" /\ last.session \in {"absent", "dead"})
    => last.status = 303

\* C9 witness: a /goose request for a session whose child was killed from
\* outside (the entry is still registered) was redirected.
C9_Witness ==
    /\ last.op = "goose" /\ last.session = "dead" /\ last.status = 303
    /\ \E k \in DOMAIN backends : procs[backends[k].proc].state = "exited"

\* C10: on both proxy routes a request without a live session is redirected
\* when it is a browser navigation and gets a not-found / unauthorized status,
\* not a redirect, when it is not.
C10_NavigationDecidesAnswer ==
    (last.op \in {"goose", "abs"} /\ last.session \in {"absent", "dead"})
    => /\ last.nav => last.status = 303
       /\ ~last.nav => last.status \in {401, 404}

\* The entry under key was touched (or created) within the inactivity
\* threshold before now.
TouchedWithinThreshold(key) == now - backends[key].last_seen <= INACTIVITY_SECS

\* C11: a reaper tick leaves alone every handle whose last touch is within the
\* inactivity threshold: the entry, its child and its working directory are
\* after the tick what they were before it.  (The first two lines of the
\* premise hold of every tick that changes anything; they spare evaluating
\* the tick on the other steps.)
C11_ReaperSparesTouched ==
    [][ (/\ backends' # backends \/ procs' # procs \/ dirs' # dirs
         /\ now' = now /\ last' = last /\ call' = call /\ conn' = conn
         /\ \E out \in [Expired -> Outcomes], rm \in [Expired -> BOOLEAN] :
               idle_reaper(out, rm))
        => \A k \in DOMAIN backends :
              TouchedWithinThreshold(k)
              => /\ k \in DOMAIN backends'
                 /\ backends'[k] = backends[k]
                 /\ procs'[backends[k].proc] = procs[backends[k].proc]
                 /\ (backends[k].workdir \in dirs) = (backends[k].workdir \in dirs') ]_vars

\* C11 witness: a session last touched by a heartbeat is running and exactly
\* the inactivity threshold has passed since: the tick taken here leaves it.
C11_Witness ==
    /\ last.op = "heartbeat" /\ last.session = "live"
    /\ \E k \in DOMAIN backends :
          /\ now - backends[k].last_seen = INACTIVITY_SECS
          /\ poll_is_None(procs, backends[k].proc)

\* C12: the reaper tick taken in any reachable state removes every handle not
\* touched for longer than the inactivity threshold, and after the tick the
\* handle's process is not running (the cleanup steps succeeding).
C12_ReaperRemovesIdle ==
    \A out \in [Expired -> Clean], rm \in [Expired -> Removed] :
        \A k \in DOMAIN backends :
            ~TouchedWithinThreshold(k)
            => /\ k \notin DOMAIN reaper_tick(out, rm).backends
               /\ ~poll_is_None(reaper_tick(out, rm).procs, backends[k].proc)

\* The header names the proxy is allowed to leave out or rewrite.
Rewritten == HOP_BY_HOP \cup { "content-length", "accept-encoding", "host" }

PreservedNames == { lower(n) : n \in HeaderNames } \ Rewritten

\* C13: in a proxied exchange every header name outside the hop-by-hop /
\* content-length / accept-encoding set (and Host, which is rewritten) has
\* downstream exactly the values it has upstream, in number and in order:
\* in the request sent to the backend and in the response sent to the caller.
C13_HeadersPreserved ==
    /\ wire.forwarded # Empty
       => \A n \in PreservedNames :
             values_of(wire.forwarded, n) = values_of(wire.request, n)
    /\ wire.response # Empty
       => \A n \in PreservedNames :
             values_of(wire.response, n) = values_of(wire.upstream, n)

\* Both connections of bridge w are open and its loops relay.
BridgeOpen(w) ==
    /\ bridges[w].pc = "relaying"
    /\ bridges[w].client = "open"
    /\ bridges[w].upstream = "open"

\* The frames client_to_upstream holds and will send next.
InFlightUp(w) ==
    IF bridges[w].msg = Empty THEN Empty ELSE upstream_send(bridges[w].msg[1])

\* The frames upstream_to_client holds and will send next.
InFlightDown(w) ==
    IF bridges[w].data = Empty THEN Empty ELSE websocket_send(bridges[w].data[1])

\* C14: while both sides of a bridge are open, the frames the backend has
\* received, followed by those the proxy holds or has not yet read, are
\* exactly the frames the client has sent, in the same order and of the same
\* type (text or binary); likewise from the backend to the client.  Nothing
\* is dropped, duplicated or reordered.
C14_FramesRelayedInOrder ==
    \A w \in Bridges :
        BridgeOpen(w)
        => /\ bridges[w].backend_received \o InFlightUp(w) \o bridges[w].inbox
                 = bridges[w].client_sent
           /\ bridges[w].client_received \o InFlightDown(w) \o bridges[w].outbox
                 = bridges[w].backend_sent

\* An open bridge has delivered a text frame and then a binary frame to the
\* backend, and a binary frame and then a text frame to the client.
C14_Witness ==
    \E w \in Bridges :
        /\ BridgeOpen(w)
        /\ bridges[w].backend_received
              = << [type |-> "text", data |-> "m"], [type |-> "bytes", data |-> "m"] >>
        /\ bridges[w].client_received
              = << [type |-> "bytes", data |-> "m"], [type |-> "text", data |-> "m"] >>

\* The bridges that have accepted their client and not yet left the gather.
Relaying == { w \in Bridges : bridges[w].pc = "relaying" }

\* C15: WS_CONNECTIONS is the number of bridges that have accepted their
\* client and not yet finished relaying, whichever side closed first and
\* whether or not a relay loop raised; it is never negative.
C15_CountsOpenBridges ==
    /\ WS_CONNECTIONS = Cardinality(Relaying)
    /\ WS_CONNECTIONS >= 0

\* One bridge has ended because client_to_upstream raised, the other is still
\* relaying and is the only one counted.
C15_Witness ==
    \E w \in Bridges, v \in Bridges :
        /\ bridges[w].pc = "done" /\ bridges[w].c2u = "raised"
        /\ bridges[v].pc = "relaying"
        /\ WS_CONNECTIONS = 1

\* Some step of the handler of bridge w can be taken.
BridgeCanStep(w) ==
    \/ ENABLED c2u_receive(w)
    \/ ENABLED c2u_send(w)
    \/ ENABLED u2c_next(w)
    \/ ENABLED u2c_send(w)
    \/ ENABLED bridge_finish(w)

\* C16: once the backend side of a bridge is closed, the handler goes on to
\* close the client connection and to terminate without the client doing
\* anything: as long as it has not terminated, one of its steps can be taken.
C16_BackendCloseEndsBridge ==
    \A w \in Bridges :
        (/\ loop = NoTask
         /\ bridges[w].pc = "relaying"
         /\ bridges[w].upstream \in UpstreamClosed)
        => BridgeCanStep(w)

\* The registry keys of the cookie pairs, next to those in the registry.
StopKeys == DOMAIN backends \cup { session_key(ck[1], ck[2]) : ck \in Cookies }

\* C17: stop_backend_by_key(key) leaves the registry without an entry for
\* key and with every other entry as it was, whatever the termination of the
\* child and the removal of the directory come to; it returns normally in
\* every case.
C17_StopAlwaysRemoves ==
    \A key \in StopKeys, outcome \in Outcomes, removed \in BOOLEAN :
        LET st == stop_backend_by_key(Resources, key, outcome, removed)
        IN  /\ key \notin DOMAIN st.backends
            /\ DOMAIN st.backends = DOMAIN backends \ {key}
            /\ \A k \in DOMAIN st.backends : st.backends[k] = backends[k]

\* A logout of a live session in which both the kill and the directory
\* removal failed: the child still runs, its directory is still there, and the
\* registry no longer has the entry.
C17_Witness ==
    /\ last.op = "logout" /\ last.session = "live"
    /\ \E p \in DOMAIN procs :
          /\ poll_is_None(procs, p)
          /\ p \in dirs
          /\ \A k \in DOMAIN backends : backends[k].proc # p
          /\ DOMAIN backends = {}

\* C18: no two entries of the registry whose processes are running have the
\* same port, and no two have the same working directory.
C18_NoSharedPortOrWorkdir ==
    \A k1 \in DOMAIN backends, k2 \in DOMAIN backends :
        (/\ k1 # k2
         /\ poll_is_None(procs, backends[k1].proc)
         /\ poll_is_None(procs, backends[k2].proc))
        => /\ backends[k1].port # backends[k2].port
           /\ backends[k1].workdir # backends[k2].workdir

\* C19: when the forwarding of a proxied request ends without a response of
\* the backend, the caller is answered 502 by the route it called, the
\* request has been sent to the backend once, and the registry, the processes
\* and the working directories are as they were.
C19_TransportFailureAnswers502 ==
    [][ (conn.pc = "forwarding" /\ conn'.pc = "none" /\ last'.status # 200)
        => /\ last'.status = 502
           /\ last'.op = conn.route
           /\ conn.sends = 1
           /\ backends' = backends
           /\ procs' = procs
           /\ dirs' = dirs ]_vars

\* After a 502 for a live session, the next request of that session is being
\* forwarded to the port of the same, still running backend.
C19_Witness ==
    /\ last.op = "goose" /\ last.status = 502 /\ last.session = "live"
    /\ conn.pc = "forwarding"
    /\ \E k \in DOMAIN backends :
          /\ backends[k].port = conn.port
          /\ poll_is_None(procs, backends[k].proc)

\* C20: every step that removes an entry from the registry, replaces an
\* existing entry by another handle, or terminates a process is a tick of the
\* idle reaper or a logout; no step of POST /start, of the proxy routes, of
\* the WebSocket bridge, of the heartbeat or of the home page is one.
C20_OnlyReaperAndLogoutRemove ==
    [][ (\/ \E k \in DOMAIN backends :
               \/ k \notin DOMAIN backends'
               \/ backends'[k].proc # backends[k].proc
         \/ \E p \in DOMAIN procs :
               procs[p].state # "terminated" /\ procs'[p].state = "terminated")
        => \/ last'.op = "logout"
           \/ \E out \in [Expired -> Outcomes], rm \in [Expired -> BOOLEAN] :
                 idle_reaper(out, rm) ]_vars

\* The cookie pairs that carry both cookies.
BothCookies == { ck \in Cookies : ~no_cookies(ck[1], ck[2]) }

\* C21 as stated: after a logout carrying both cookies the registry has no
\* entry for the identity, the process of the entry it had is no longer
\* running and its working directory is removed.
C21_LogoutTearsDown ==
    \A ck \in BothCookies, outcome \in Outcomes, removed \in BOOLEAN :
        LET key == session_key(ck[1], ck[2])
            st  == logout_result(ck[1], ck[2], outcome, removed).resources
        IN  (loop = NoTask /\ key \in DOMAIN backends)
            => /\ key \notin DOMAIN st.backends
               /\ ~poll_is_None(st.procs, backends[key].proc)
               /\ backends[key].workdir \notin st.dirs

\* C21: after a logout carrying both cookies the registry has no entry for
\* the identity and the response (303) deletes both cookies; the process of
\* the entry it had is no longer running unless the kill failed as well, and
\* its working directory is removed unless the removal failed.  When the
\* identity has no entry, registry, processes and directories are unchanged.
C21_LogoutRemovesEntry ==
    \A ck \in BothCookies, outcome \in Outcomes, removed \in BOOLEAN :
        LET key == session_key(ck[1], ck[2])
            res == logout_result(ck[1], ck[2], outcome, removed)
            st  == res.resources
        IN  loop = NoTask
            => /\ key \notin DOMAIN st.backends
               /\ res.response.status = 303 /\ res.response.cookies = "deleted"
               /\ \A k \in DOMAIN backends \ {key} :
                     k \in DOMAIN st.backends /\ st.backends[k] = backends[k]
               /\ key \in DOMAIN backends
                  => /\ outcome # "kill_failed"
                        => ~poll_is_None(st.procs, backends[key].proc)
                     /\ removed => backends[key].workdir \notin st.dirs
               /\ key \notin DOMAIN backends => st = Resources

\* A logout has torn a live session down (child terminated, directory gone,
\* no entry), and a logout of an identity without entry has followed.
C21_Witness ==
    /\ last.op = "logout" /\ last.session = "absent" /\ last.cookies = "deleted"
    /\ DOMAIN backends = {}
    /\ \E p \in DOMAIN procs : procs[p].state = "terminated" /\ p \notin dirs

\* C22: of two stop_backend_by_key calls for the same key, whatever their
\* cleanup steps come to, the first takes the entry out and works on that
\* handle's process and directory only, and the second changes nothing.
C22_StopIdempotent ==
    \A key \in StopKeys, o1 \in Outcomes, r1 \in BOOLEAN :
        LET once == stop_backend_by_key(Resources, key, o1, r1)
        IN  /\ \A o2 \in Outcomes, r2 \in BOOLEAN :
                  stop_backend_by_key(once, key, o2, r2) = once
            /\ key \notin DOMAIN backends => once = Resources
            /\ key \in DOMAIN backends
               => /\ key \notin DOMAIN once.backends
                  /\ \A p \in DOMAIN procs \ {backends[key].proc} :
                        once.procs[p] = procs[p]
                  /\ \A d \in dirs \ {backends[key].workdir} : d \in once.dirs

\* A logout found no entry after an earlier teardown of the session in which
\* the kill and the removal had failed: the child it left running and the
\* directory it left behind are as the first call left them.
C22_Witness ==
    /\ last.op = "logout" /\ last.session = "absent"
    /\ \E p \in DOMAIN procs :
          /\ procs[p].state = "listening"
          /\ p \in dirs
          /\ \A k \in DOMAIN backends : backends[k].proc # p

\* C23: a heartbeat is answered 204; it leaves the set of registry entries,
\* every port, process and working directory as they were, and the only
\* last_seen it changes is that of the caller's own entry, set to the current
\* time, and only if that entry's process is running.
C23_HeartbeatOnlyTouches ==
    [][ \A ck \in Cookies :
           (/\ last'.op = "heartbeat"
            /\ last' # last \/ backends' # backends
            /\ heartbeat(ck[1], ck[2]))
           => /\ last'.status = 204
              /\ DOMAIN backends' = DOMAIN backends
              /\ procs' = procs /\ dirs' = dirs
              /\ \A k \in DOMAIN backends :
                    \/ backends'[k] = backends[k]
                    \/ /\ k = session_key(ck[1], ck[2])
                       /\ ~no_cookies(ck[1], ck[2])
                       /\ poll_is_None(procs, backends[k].proc)
                       /\ backends'[k] = [backends[k] EXCEPT !.last_seen = now] ]_vars

\* A heartbeat found an entry whose process had exited, after time had
\* passed: 204, and the entry's last_seen is still the old one.
C23_Witness ==
    /\ last.op = "heartbeat" /\ last.status = 204 /\ last.session = "dead"
    /\ now > 0
    /\ \E k \in DOMAIN backends :
          /\ ~poll_is_None(procs, backends[k].proc)
          /\ backends[k].last_seen < now

\* C24: a WebSocket upgrade whose session is absent or not live is closed
\* with code 4401 and nothing else happens: no connection to a backend is
\* opened, the client is not accepted, WS_CONNECTIONS, the registry, the
\* processes and the directories are unchanged; and an upgrade goes on to
\* connect to a backend only for a live session.
C24_NoSessionCloses4401 ==
    [][ /\ (last'.op = "ws" /\ last'.status = 4401 /\ last' # last)
           => /\ last'.session \in {"absent", "dead"}
              /\ conn' = conn
              /\ WS_CONNECTIONS' = WS_CONNECTIONS
              /\ backends' = backends /\ procs' = procs /\ dirs' = dirs
        /\ (conn.pc = "none" /\ conn'.pc = "connecting")
           => /\ has_live_session(conn'.host, conn'.token)
              /\ conn'.port = backends[session_key(conn'.host, conn'.token)].port ]_vars

\* An upgrade for a session whose backend had exited was closed with 4401,
\* time having passed since the session's last touch; nothing is counted.
C24_Witness ==
    /\ last.op = "ws" /\ last.status = 4401 /\ last.session = "dead"
    /\ conn = NoConn /\ WS_CONNECTIONS = 0
    /\ \E k \in DOMAIN backends : backends[k].last_seen < now

\* C25: when the connection to the live backend cannot be established, the
\* client is closed with code 1013 and nothing else happens: the client is
\* not accepted, WS_CONNECTIONS is not incremented, and the registry
\* (last_seen included), the processes and the directories are unchanged.
C25_ConnectFailureCloses1013 ==
    [][ (conn.pc = "connecting" /\ conn'.pc = "none")
        => /\ last'.op = "ws" /\ last'.status = 1013
           /\ conn' = NoConn
           /\ WS_CONNECTIONS' = WS_CONNECTIONS
           /\ backends' = backends /\ procs' = procs /\ dirs' = dirs ]_vars

\* An upgrade of a live session was closed with 1013, time having passed
\* since the session's last touch; nothing is counted.
C25_Witness ==
    /\ last.op = "ws" /\ last.status = 1013 /\ last.session = "live"
    /\ conn = NoConn /\ WS_CONNECTIONS = 0
    /\ \E k \in DOMAIN backends :
          poll_is_None(procs, backends[k].proc) /\ backends[k].last_seen < now

\* The inbound path below the prefix of the route that matched it.
PathBelowRoute(line) ==
    IF line.path[1] = "/goose/"
    THEN <<"/">> \o Tail(line.path)
    ELSE line.path

\* C26: the outbound request of a proxied exchange has the method of the
\* inbound request, its path (below the route's own prefix), its query
\* string, and goes to the port of the caller's handle.
C26_TargetPreserved ==
    wire.outbound # Empty
    => /\ wire.outbound[1].method = wire.inbound[1].method
       /\ wire.outbound[1].authority = wire.inbound[1].authority
       /\ wire.outbound[1].path = PathBelowRoute(wire.inbound[1])
       /\ wire.outbound[1].query = wire.inbound[1].query

\* C27: while a POST /start is still waiting for the port of the entry it
\* registered, no HTTP or WebSocket request is forwarded to that entry unless
\* its port already accepts connections.
C27_NoForwardBeforeReady ==
    [][ \A c \in Callers :
          (/\ conn.pc = "none"
           /\ conn'.pc \in {"forwarding", "connecting"}
           /\ call[c].pc = "wait"
           /\ FrameKey(c) \in DOMAIN backends
           /\ backends[FrameKey(c)].proc = call[c].id
           /\ conn'.port = call[c].port)
          => PortAccepts(procs, call[c].port) ]_vars

\* A teardown in which a cleanup step fails.
TeardownFails(outcome, removed) == outcome = "kill_failed" \/ ~removed

\* C28: whatever the cleanup steps of a reaper tick come to, and in
\* particular when those of one expired entry fail, every other entry that
\* the tick finds expired is out of the registry after the tick, its process
\* no longer running unless its own kill failed and its working directory
\* removed unless its own removal failed.
C28_TickSurvivesFailure ==
    \A out \in [Expired -> Outcomes], rm \in [Expired -> BOOLEAN] :
        LET st == reaper_tick(out, rm)
        IN  \A j \in Expired, k \in Expired :
               (j # k /\ TeardownFails(out[j], rm[j]))
               => /\ k \notin DOMAIN st.backends
                  /\ out[k] # "kill_failed"
                     => ~poll_is_None(st.procs, backends[k].proc)
                  /\ rm[k] => backends[k].workdir \notin st.dirs

\* One tick took two expired sessions down: the kill and the removal failed
\* for one (its child runs on and its directory is still there), and the other
\* is terminated and its directory gone; the registry is empty.
C28_Witness ==
    /\ DOMAIN backends = {}
    /\ \E p \in DOMAIN procs, q \in DOMAIN procs :
          /\ procs[p].state = "listening" /\ p \in dirs
          /\ procs[q].state = "terminated" /\ q \notin dirs

\* The registry holds an entry for key whose process has exited on its own.
StaleEntry(key) ==
    key \in DOMAIN backends /\ procs[backends[key].proc].state = "exited"

\* C29: a stale entry (its process exited on its own) that no reaper tick has
\* removed is cleaned up by the next provisioning for its identity at the
\* latest: when that provisioning registers its handle, the stale handle is
\* out of the registry and its working directory is deleted.
C29_StaleEntryCleanedUp ==
    [][ \A c \in Callers :
          (/\ call[c].pc = "spawn" /\ call'[c].pc = "wait"
           /\ StaleEntry(FrameKey(c)))
          => /\ \A k \in DOMAIN backends' :
                   backends'[k].proc # backends[FrameKey(c)].proc
             /\ backends[FrameKey(c)].workdir \notin dirs' ]_vars

\* The registry entries whose handle has the working directory d.
OwnersOf(d) == { k \in DOMAIN backends : backends[k].workdir = d }

\* The working directory d is that of a start_backend call that has not
\* returned yet.
BeingProvisioned(d) == \E c \in Callers : call[c].pc = "spawn" /\ call[c].id = d

\* C30: every working directory that exists is the workdir of exactly one
\* handle of the registry, or of a start_backend call still on its way to
\* registering one.
C30_NoOrphanWorkdir ==
    \A d \in dirs : BeingProvisioned(d) \/ Cardinality(OwnersOf(d)) = 1

\* C31: a request whose cookies pass has_live_session and whose lookup
\* backends[session_key(host, token)] returns the handle that a POST /start,
\* still in its readiness wait, registered, carries the very (host, token)
\* pair of that POST /start.
C31_KeyInjective ==
    \A c \in Callers, id \in KeyIdentities :
        (/\ call[c].pc = "wait"
         /\ FrameKey(c) \in DOMAIN backends
         /\ backends[FrameKey(c)].proc = call[c].id
         /\ has_live_session(id[1], id[2])
         /\ backends[session_key(id[1], id[2])].proc = call[c].id)
        => id = <<call[c].host, call[c].token>>

\* The paths of the control routes.
ControlPaths ==
    { <<"/">>, <<"/", "start">>, <<"/", "logout">>, <<"/", "heartbeat">>,
      <<"/", "_health">> }

\* C32: no request for the path of a control route, whatever its method, is
\* being forwarded to a backend.
C32_ControlRoutesNotShadowed ==
    (conn.pc = "forwarding" /\ wire.inbound # Empty)
    => wire.inbound[1].path \notin ControlPaths

\* C33: when POST /start answers with the redirect that sets the cookies, the
\* registry holds an entry for the identity of the request and the process of
\* that entry is running: for the caller that provisioned and waited, and for
\* the caller that was handed an existing entry.
C33_RedirectMeansLiveEntry ==
    [][ /\ \A c \in Callers :
             (call[c].pc = "closing" /\ call'[c].pc = "idle")
             => /\ last'.status = 303 /\ last'.cookies = "set"
                /\ FrameKey(c) \in DOMAIN backends'
                /\ poll_is_None(procs', backends'[FrameKey(c)].proc)
        /\ (call' = call /\ last' # last /\ last'.op = "start" /\ last'.status = 303)
           => \E k \in DOMAIN backends' :
                 backends'[k].proc = last'.proc /\ poll_is_None(procs', last'.proc) ]_vars

\* C34: whenever a proxy handler or the WebSocket bridge goes on to its
\* backend, the session it checked was live and the handle it looked up is,
\* at that moment, an entry of the registry whose process is running (for the
\* bridge: the entry under the key of its cookies); no proxy handler answers
\* 500 for a lookup that failed.
C34_LookupFollowsCheck ==
    [][ /\ (conn'.pc # conn.pc /\ conn'.pc \in {"forwarding", "connecting"})
           => /\ conn'.session = "live"
              /\ \E k \in DOMAIN backends :
                    /\ poll_is_None(procs, backends[k].proc)
                    /\ backends[k].port = conn'.port
                    /\ conn'.route = "ws" => k = session_key(conn'.host, conn'.token)
        /\ (last' # last /\ last'.op \in {"goose", "abs", "ws"})
           => last'.status # 500 ]_vars

\* A request was forwarded for a live session, and the entry it looked up
\* has since been taken out of the registry.
C34_Witness ==
    /\ conn.pc \in {"forwarding", "connecting"}
    /\ conn.session = "live"
    /\ \A k \in DOMAIN backends : backends[k].port # conn.port

\* C35: after the shutdown handler the registry is empty; and whatever the
\* cleanup steps come to, the handler takes every entry out of the registry,
\* leaves no process of an entry running unless that process's kill failed,
\* and no working directory of an entry in place unless its removal failed.
C35_ShutdownEmptiesRegistry ==
    /\ loop = Stopped => DOMAIN backends = {}
    /\ loop = NoTask
       => \A out \in [DOMAIN backends -> Outcomes],
             rm \in [DOMAIN backends -> BOOLEAN] :
             LET st == shutdown_result(out, rm)
             IN  /\ DOMAIN st.backends = {}
                 /\ \A k \in DOMAIN backends :
                       /\ out[k] # "kill_failed"
                          => ~poll_is_None(st.procs, backends[k].proc)
                       /\ rm[k] => backends[k].workdir \notin st.dirs

\* The application shut down with two sessions: the kill and the removal
\* failed for one, the other is terminated and its directory gone, and the
\* registry is empty.
C35_Witness ==
    /\ loop = Stopped
    /\ DOMAIN backends = {}
    /\ \E p \in DOMAIN procs, q \in DOMAIN procs :
          /\ procs[p].state = "listening" /\ p \in dirs
          /\ procs[q].state = "terminated" /\ q \notin dirs

====
